---- MODULE Spec2Model ----
(***************************************************************************)
(* Model of the documentation-correctness pipeline of ai-code-reviewer:    *)
(*   core/docstring_engine/generator.py   (cache, structural scan, clean)  *)
(*   core/review_engine/groq_review.py    (provider call, fallback)        *)
(*   core/docstring_engine/ai_validator.py (validator)                     *)
(*   src/py_parser.py                     (extractor)                      *)
(*                                                                         *)
(* Text is modelled as a sequence of tokens.  Every token stands for one   *)
(* fixed, non-empty piece of text ("Returns", ":", one space, one line     *)
(* break, ...); the text is the concatenation of its tokens.  The regular  *)
(* expressions of the source are translated to operators on token          *)
(* sequences that match exactly where the expression matches on the        *)
(* concatenated text.                                                      *)
(***************************************************************************)
EXTENDS Integers, Sequences, FiniteSets, TLC

VARIABLES
    \* generator: the lru_cache of _cached_gen, oldest entry first
    cache,
    \* groq_review._GROQ_CLIENT is set; GROQ_API_KEY is set
    groq_client, api_key,
    \* the callers of generate_docstring / generate_module_docstring
    callers,
    \* history: per key, the raw text the last completed request returned
    \* (<<"none">> before the first, and again once the key's entry is
    \* evicted); the number of requests started
    returned, nreq,
    \* one run of the cleaning pipeline: the raw text, the source snippet the
    \* structural facts are scanned from (NoSnippet when no facts are
    \* supplied), the facts, the output, the output of a second pass over the
    \* output, the ValidationResult of the output (<<"none">> before), and
    \* the position of the run
    raw_text, snippet, facts, cleaned, recleaned, checked, clean_pc,
    \* one run of the validator: the candidate text, the function's
    \* metadata, the declared style, the ValidationResult, the text a second
    \* auto_correct gives for the corrected text (<<"none">> before), the
    \* ValidationResult of the corrected text (<<"none">> before), and the
    \* position of the run
    candidate, function, declared_style, validation, recorrected,
    revalidation, val_pc,
    \* one call of the parser: the file, the ParseResult returned, the
    \* exception that escaped the call, and the position of the call
    file_in, outcome, escaped, parse_pc,
    \* one call of compute_function_metrics: the function record, the state
    \* of the radon package, the metrics returned, and the position of the
    \* call
    func_record, radon, metrics, met_pc,
    \* one call of aggregate_metrics: the function records and the class
    \* records of the project, the statistics returned, and the position of
    \* the call
    project_functions, project_classes, aggregate, agg_pc

genvars == <<cache, groq_client, api_key, callers, returned, nreq>>
cleanvars ==
    <<raw_text, snippet, facts, cleaned, recleaned, checked, clean_pc>>
valvars ==
    <<candidate, function, declared_style, validation, recorrected,
      revalidation, val_pc>>
parsevars == <<file_in, outcome, escaped, parse_pc>>
metricvars == <<func_record, radon, metrics, met_pc>>
aggvars == <<project_functions, project_classes, aggregate, agg_pc>>
vars == <<genvars, cleanvars, valvars, parsevars, metricvars, aggvars>>
\* what the operations of each component leave alone
notgen == <<cleanvars, valvars, parsevars, metricvars, aggvars>>
notclean == <<genvars, valvars, parsevars, metricvars, aggvars>>
notval == <<genvars, cleanvars, parsevars, metricvars, aggvars>>
notparse == <<genvars, cleanvars, valvars, metricvars, aggvars>>
notmetrics == <<genvars, cleanvars, valvars, parsevars, aggvars>>
notagg == <<genvars, cleanvars, valvars, parsevars, metricvars>>

\* ------------------------------------------------------------------ tokens

\* one line break, one space
NL == "NL"
SP == "SP"
\* three double quotes, three single quotes, three backticks, a run of dashes
Q3D == "Q3D"
Q3S == "Q3S"
FENCE == "FENCE"
DASHES == "---"

WS == {NL, SP}

\* _IMPERATIVE_FIXES: <<third person singular, imperative>>
IMPERATIVE_FIXES ==
    {<<"Raises", "Raise">>, <<"Returns", "Return">>, <<"Yields", "Yield">>,
     <<"Calculates", "Calculate">>, <<"Computes", "Compute">>,
     <<"Creates", "Create">>, <<"Generates", "Generate">>, <<"Gets", "Get">>,
     <<"Sets", "Set">>, <<"Checks", "Check">>, <<"Validates", "Validate">>,
     <<"Parses", "Parse">>, <<"Processes", "Process">>,
     <<"Handles", "Handle">>, <<"Executes", "Execute">>,
     <<"Performs", "Perform">>, <<"Builds", "Build">>,
     <<"Initializes", "Initialize">>, <<"Converts", "Convert">>,
     <<"Extracts", "Extract">>, <<"Loads", "Load">>, <<"Saves", "Save">>,
     <<"Writes", "Write">>, <<"Reads", "Read">>, <<"Sends", "Send">>,
     <<"Receives", "Receive">>, <<"Updates", "Update">>,
     <<"Deletes", "Delete">>, <<"Removes", "Remove">>, <<"Adds", "Add">>,
     <<"Inserts", "Insert">>, <<"Finds", "Find">>, <<"Searches", "Search">>,
     <<"Sorts", "Sort">>, <<"Filters", "Filter">>, <<"Maps", "Map">>,
     <<"Reduces", "Reduce">>, <<"Transforms", "Transform">>,
     <<"Applies", "Apply">>, <<"Runs", "Run">>, <<"Starts", "Start">>,
     <<"Stops", "Stop">>, <<"Opens", "Open">>, <<"Closes", "Close">>,
     <<"Connects", "Connect">>, <<"Formats", "Format">>,
     <<"Prints", "Print">>, <<"Logs", "Log">>, <<"Tests", "Test">>,
     <<"Verifies", "Verify">>, <<"Determines", "Determine">>,
     <<"Evaluates", "Evaluate">>, <<"Fetches", "Fetch">>,
     <<"Retrieves", "Retrieve">>, <<"Stores", "Store">>,
     <<"Caches", "Cache">>, <<"Clears", "Clear">>, <<"Resets", "Reset">>,
     <<"Copies", "Copy">>, <<"Moves", "Move">>, <<"Merges", "Merge">>,
     <<"Splits", "Split">>, <<"Joins", "Join">>, <<"Appends", "Append">>,
     <<"Wraps", "Wrap">>, <<"Encodes", "Encode">>, <<"Decodes", "Decode">>,
     <<"Encrypts", "Encrypt">>, <<"Decrypts", "Decrypt">>,
     <<"Serializes", "Serialize">>, <<"Deserializes", "Deserialize">>,
     <<"Normalizes", "Normalize">>, <<"Sanitizes", "Sanitize">>,
     <<"Configures", "Configure">>, <<"Registers", "Register">>,
     <<"Enables", "Enable">>, <<"Disables", "Disable">>,
     <<"Displays", "Display">>, <<"Renders", "Render">>, <<"Shows", "Show">>,
     <<"Hides", "Hide">>, <<"Toggles", "Toggle">>, <<"Switches", "Switch">>,
     <<"Provides", "Provide">>, <<"Defines", "Define">>,
     <<"Describes", "Describe">>, <<"Implements", "Implement">>,
     <<"Extends", "Extend">>, <<"Overrides", "Override">>}

\* The lowercase words of the vocabulary, each with its capitalized form
\* (str.upper() of the first letter, str.lower() in the other direction).
CapPairs ==
    {<<"calculates", "Calculates">>, <<"calculate", "Calculate">>,
     <<"returns", "Returns">>,
     <<"validates", "Validates">>, <<"this", "This">>, <<"sure", "Sure">>,
     <<"here", "Here">>, <<"is", "Is">>, <<"have", "Have">>,
     <<"generated", "Generated">>, <<"by", "By">>,
     <<"function", "Function">>, <<"method", "Method">>,
     <<"module", "Module">>, <<"class", "Class">>, <<"def", "Def">>,
     <<"python", "Python">>, <<"the", "The">>, <<"sum", "Sum">>,
     <<"summary", "Summary">>, <<"description", "Description">>,
     <<"value", "Value">>, <<"type", "Type">>, <<"int", "Int">>,
     <<"param", "Param">>, <<"pass", "Pass">>, <<"self", "Self">>,
     <<"cls", "Cls">>, <<"args", "Args">>, <<"kwargs", "Kwargs">>,
     <<"a", "A">>, <<"b", "B">>, <<"c", "C">>, <<"d", "D">>, <<"e", "E">>,
     <<"f", "F">>, <<"g", "G">>, <<"h", "H">>, <<"x", "X">>, <<"key", "Key">>,
     <<"i", "I">>, <<"ai", "Ai">>, <<"thing", "Thing">>,
     <<"return", "Return">>, <<"raises", "Raises">>, <<"yields", "Yields">>}

\* tokens made of lowercase letters only ([a-z]+, str.islower())
LowerWords == {p[1] : p \in CapPairs}

\* word tokens that start with an uppercase letter ([A-Z]\w*)
UpperWords ==
    {p[2] : p \in CapPairs} \cup {p[1] : p \in IMPERATIVE_FIXES}
    \cup {p[2] : p \in IMPERATIVE_FIXES}
    \cup {"Parameters", "Examples", "Example", "Notes", "See", "Also",
          "Attributes", "Error", "Fallback", "No", "API", "AI",
          "ValueError", "TypeError", "KeyError", "IOError"}

\* \w+ : the tokens that are one word
Words == LowerWords \cup UpperWords

\* str.lower() and "first letter to upper case" of one token
Lower(t) == IF t = "AI" THEN "ai"
            ELSE IF \E p \in CapPairs : p[2] = t
            THEN (CHOOSE p \in CapPairs : p[2] = t)[1] ELSE t
Capitalize(t) == IF \E p \in CapPairs : p[1] = t
                 THEN (CHOOSE p \in CapPairs : p[1] = t)[2] ELSE t

Min(S) == CHOOSE m \in S : \A n \in S : m <= n
Max(S) == CHOOSE m \in S : \A n \in S : m >= n

\* ------------------------------------------------------- string primitives

\* s[i:] and s[:i] on 1-based token positions
From(s, i) == SubSeq(s, i, Len(s))
Upto(s, i) == SubSeq(s, 1, i)

\* s[i:].startswith(pat), pat a token sequence
HasAt(s, i, pat) ==
    /\ i >= 1
    /\ i + Len(pat) - 1 <= Len(s)
    /\ SubSeq(s, i, i + Len(pat) - 1) = pat

\* pat in s
Contains(s, pat) == \E i \in 1..Len(s) : HasAt(s, i, pat)

\* the first position at or after i that holds no whitespace (\s* from i),
\* Len(s)+1 if none
SkipWS(s, i) ==
    IF \E j \in i..Len(s) : s[j] \notin WS
    THEN CHOOSE j \in i..Len(s) :
             s[j] \notin WS /\ \A k \in i..(j - 1) : s[k] \in WS
    ELSE Len(s) + 1

\* the last position that holds no whitespace, 0 if none
LastNonWS(s) ==
    IF \E j \in 1..Len(s) : s[j] \notin WS
    THEN CHOOSE j \in 1..Len(s) :
             s[j] \notin WS /\ \A k \in (j + 1)..Len(s) : s[k] \in WS
    ELSE 0

\* str.strip()
Strip(s) == SubSeq(s, SkipWS(s, 1), LastNonWS(s))

\* str.rstrip()
RStrip(s) == Upto(s, LastNonWS(s))

\* the position of the first line break at or after i, Len(s)+1 if none
NextNL(s, i) ==
    IF \E j \in i..Len(s) : s[j] = NL
    THEN CHOOSE j \in i..Len(s) :
             s[j] = NL /\ \A k \in i..(j - 1) : s[k] # NL
    ELSE Len(s) + 1

\* ---------------------------------------------------- regular expressions
\* Every Match* operator answers, for a text s and a start position i, the
\* position just after the match of the expression at i, or 0 when the
\* expression does not match at i.

\* .+?(\n\n|$) under DOTALL, from position b: at least one token, then lazily
\* up to the first blank line (consumed) or the end of the text ($ also
\* matches before a final line break, which is then not consumed).
BodyEnd(s, b) ==
    IF b > Len(s) THEN 0
    ELSE LET stop(q) == \/ q = Len(s) + 1
                        \/ q <= Len(s) /\ s[q] = NL
                           /\ (q = Len(s) \/ s[q + 1] = NL)
             q == Min({k \in (b + 1)..(Len(s) + 1) : stop(k)})
         IN  IF q < Len(s) /\ s[q] = NL /\ s[q + 1] = NL THEN q + 2 ELSE q

\* \s*\n.+?(\n\n|$) from position c: \s* is greedy, so the line break taken
\* is the last one of the whitespace run that still leaves a token for .+?
AfterHeader(s, c) ==
    LET e == SkipWS(s, c)
        K == {k \in c..(e - 1) : s[k] = NL /\ k < Len(s)}
    IN  IF K = {} THEN 0 ELSE BodyEnd(s, Max(K) + 1)

\* \n\s*<head>:\s*\n.+?(\n\n|$)   (DOTALL)
MatchGoogle(head, s, i) ==
    IF i > Len(s) \/ s[i] # NL THEN 0
    ELSE LET h == SkipWS(s, i + 1)
         IN  IF HasAt(s, h, head \o <<":">>)
             THEN AfterHeader(s, h + Len(head) + 1) ELSE 0

\* -+ from position d: the position after the run of dashes, 0 if none
AfterDashes(s, d) ==
    IF d > Len(s) \/ s[d] # DASHES THEN 0
    ELSE Min({j \in d..Len(s) : s[j] # DASHES} \cup {Len(s) + 1})

\* \n\s*<head>\n\s*-+\s*\n.+?(\n\n|$)   (DOTALL)
MatchNumpy(head, s, i) ==
    IF i > Len(s) \/ s[i] # NL THEN 0
    ELSE LET h == SkipWS(s, i + 1)
             u == h + Len(head)
         IN  IF HasAt(s, h, head \o <<NL>>)
             THEN LET d == AfterDashes(s, SkipWS(s, u + 1))
                  IN  IF d = 0 THEN 0 ELSE AfterHeader(s, d)
             ELSE 0

\* \n\s*<field>.+?(\n|$)   (no DOTALL: . matches no line break)
MatchField(field, s, i) ==
    IF i > Len(s) \/ s[i] # NL THEN 0
    ELSE LET h == SkipWS(s, i + 1)
             b == h + Len(field)
         IN  IF HasAt(s, h, field) /\ b <= Len(s) /\ s[b] # NL
             THEN LET q == NextNL(s, b + 1)
                  IN  IF q <= Len(s) THEN q + 1 ELSE q
             ELSE 0

MatchEnd(pat, s, i) ==
    CASE pat.kind = "google" -> MatchGoogle(pat.head, s, i)
      [] pat.kind = "numpy"  -> MatchNumpy(pat.head, s, i)
      [] pat.kind = "field"  -> MatchField(pat.head, s, i)

Google(head) == [kind |-> "google", head |-> head]
Numpy(head) == [kind |-> "numpy", head |-> head]
Field(head) == [kind |-> "field", head |-> head]

\* re.sub(pat, repl, s): the non-overlapping matches, leftmost first
RECURSIVE ReSubFrom(_, _, _, _)
ReSubFrom(pat, repl, s, i) ==
    LET starts == {j \in i..Len(s) : MatchEnd(pat, s, j) > 0}
    IN  IF starts = {} THEN From(s, i)
        ELSE LET m == Min(starts)
             IN  SubSeq(s, i, m - 1) \o repl
                 \o ReSubFrom(pat, repl, s, MatchEnd(pat, s, m))

ReSub(pat, repl, s) == ReSubFrom(pat, repl, s, 1)

\* ------------------------------------------------- generator.clean_docstring

\* (Here is|Sure|I have generated|Generated by AI), lowercase for IGNORECASE
Openers ==
    {<<"here", SP, "is">>, <<"sure">>, <<"i", SP, "have", SP, "generated">>,
     <<"generated", SP, "by", SP, "ai">>}

\* s[i:].lower().startswith(pat) for a lowercase pat
HasAtFold(s, i, pat) ==
    /\ i + Len(pat) - 1 <= Len(s)
    /\ \A j \in 1..Len(pat) : Lower(s[i + j - 1]) = pat[j]

\* 1. re.sub(r"^(Here is|Sure|...).+?(\n|$)", "", s, flags=IGNORECASE).strip()
StripPreamble(s) ==
    IF \E o \in Openers : HasAtFold(s, 1, o)
    THEN LET o == CHOOSE o \in Openers : HasAtFold(s, 1, o)
             b == Len(o) + 1
         IN  IF b <= Len(s) /\ s[b] # NL
             THEN Strip(From(s, NextNL(s, b + 1) + 1))
             ELSE Strip(s)
    ELSE Strip(s)

\* re.sub(r"^```[a-z]*\s*", "", s) on a text that starts with ```
StripFenceOpen(s) ==
    LET a == IF \E j \in 2..Len(s) : s[j] \notin LowerWords
             THEN CHOOSE j \in 2..Len(s) :
                      /\ s[j] \notin LowerWords
                      /\ \A k \in 2..(j - 1) : s[k] \in LowerWords
             ELSE Len(s) + 1
    IN  From(s, SkipWS(s, a))

\* re.sub(r"\s*```$", "", s): $ is the end, or just before a final line break
StripFenceClose(s) ==
    LET n == Len(s)
        f == IF n >= 1 /\ s[n] = FENCE THEN n
             ELSE IF n >= 2 /\ s[n] = NL /\ s[n - 1] = FENCE THEN n - 1 ELSE 0
    IN  IF f = 0 THEN s
        ELSE RStrip(Upto(s, f - 1)) \o From(s, f + 1)

\* 2. strip markdown code blocks
StripFence(s) ==
    Strip(IF Len(s) >= 1 /\ s[1] = FENCE
          THEN StripFenceClose(StripFenceOpen(s)) ELSE s)

\* str.split('\n') and '\n'.join
RECURSIVE SplitLines(_)
SplitLines(s) ==
    LET q == NextNL(s, 1)
    IN  IF q > Len(s) THEN <<s>>
        ELSE <<Upto(s, q - 1)>> \o SplitLines(From(s, q + 1))

RECURSIVE JoinLines(_)
JoinLines(ls) ==
    IF Len(ls) = 0 THEN <<>>
    ELSE IF Len(ls) = 1 THEN ls[1]
    ELSE ls[1] \o <<NL>> \o JoinLines(Tail(ls))

\* inspect.cleandoc, which ast.get_docstring applies: the first line is
\* left-stripped, the common indentation of the other non-blank lines is
\* removed from each of them, leading and trailing empty lines are dropped.
Indent(line) == SkipWS(line, 1) - 1
IsBlank(line) == SkipWS(line, 1) > Len(line)

RECURSIVE DropEmptyTail(_)
DropEmptyTail(ls) ==
    IF Len(ls) > 0 /\ ls[Len(ls)] = <<>>
    THEN DropEmptyTail(Upto(ls, Len(ls) - 1)) ELSE ls

RECURSIVE DropEmptyHead(_)
DropEmptyHead(ls) ==
    IF Len(ls) > 0 /\ ls[1] = <<>> THEN DropEmptyHead(Tail(ls)) ELSE ls

cleandoc(s) ==
    LET ls == SplitLines(s)
        rest == {i \in 2..Len(ls) : ~IsBlank(ls[i])}
        margin == IF rest = {} THEN -1 ELSE Min({Indent(ls[i]) : i \in rest})
        cut == [i \in 1..Len(ls) |->
                  IF i = 1 THEN From(ls[1], SkipWS(ls[1], 1))
                  ELSE IF margin < 0 THEN ls[i]
                  ELSE From(ls[i], margin + 1)]
    IN  JoinLines(DropEmptyHead(DropEmptyTail(cut)))

\* ast.parse of a text that is one definition whose body is one string
\* literal, and ast.get_docstring of it: the docstring, or <<>> when the text
\* does not parse to such a definition or has no docstring.
\*   (def|class) f():<ws>QQQ body QQQ     body without the quote QQQ;
\* <ws> is spaces only (body on the header's line) or ends with a line break
\* followed by at least one space (an indented block).
WrapperHead == {<<kw, SP, "f", "(", ")", ":">> : kw \in {"def", "class"}}

WrapperDocstring(s) ==
    IF \E hd \in WrapperHead : HasAt(s, 1, hd)
    THEN LET c == 7
             o == SkipWS(s, c)
             n == Len(s)
             layout == \/ \A k \in c..(o - 1) : s[k] = SP
                       \/ o - 1 >= c /\ s[o - 1] = SP
         IN  IF /\ o < n
                /\ s[o] \in {Q3D, Q3S}
                /\ s[n] = s[o]
                /\ layout
                /\ \A k \in (o + 1)..(n - 1) : s[k] # s[o]
             THEN cleandoc(SubSeq(s, o + 1, n - 1))
             ELSE <<>>
    ELSE <<>>

\* 3. extract the docstring from a wrapper function/class
ExtractWrapper(s) ==
    IF HasAt(s, 1, <<"def", SP>>) \/ HasAt(s, 1, <<"class", SP>>)
    THEN LET d == WrapperDocstring(s) IN IF d # <<>> THEN d ELSE s
    ELSE s

\* 4. clean quotes: one layer of surrounding triple quotes, then strip
CleanQuotes(s) ==
    Strip(IF Len(s) >= 2 /\ s[1] = s[Len(s)] /\ s[1] \in {Q3D, Q3S}
          THEN SubSeq(s, 2, Len(s) - 1) ELSE s)

BlankLine == <<NL, NL>>

\* the three substitutions for a section the facts rule out
StripReturns(s) ==
    ReSub(Field(<<":", "return", ":">>), <<NL>>,
        ReSub(Numpy(<<"Returns">>), BlankLine,
            ReSub(Google(<<"Returns">>), BlankLine, s)))

StripYields(s) ==
    ReSub(Numpy(<<"Yields">>), BlankLine,
        ReSub(Google(<<"Yields">>), BlankLine, s))

StripRaises(s) ==
    ReSub(Field(<<":", "raises", ":">>), <<NL>>,
        ReSub(Numpy(<<"Raises">>), BlankLine,
            ReSub(Google(<<"Raises">>), BlankLine, s)))

\* structural facts: NoFacts stands for metadata=None
NoFacts == [given |-> FALSE, has_return |-> TRUE, has_yield |-> TRUE,
            raised_exceptions |-> {}, params |-> <<>>]

\* hallucination control: fact-based stripping
HallucinationControl(s, metadata) ==
    IF ~metadata.given THEN s
    ELSE LET r == IF ~metadata.has_return THEN StripReturns(s) ELSE s
             y == IF ~metadata.has_yield THEN StripYields(r) ELSE r
         IN  IF metadata.raised_exceptions = {} THEN StripRaises(y) ELSE y

\* 5. remove forbidden sections
forbidden == <<<<"Examples">>, <<"Example">>, <<"Notes">>, <<"See", SP, "Also">>>>

RECURSIVE RemoveForbiddenFrom(_, _)
RemoveForbiddenFrom(s, k) ==
    IF k > Len(forbidden) THEN s
    ELSE RemoveForbiddenFrom(
             ReSub(Numpy(forbidden[k]), BlankLine,
                 ReSub(Google(forbidden[k]), BlankLine, s)), k + 1)

RemoveForbidden(s) == RemoveForbiddenFrom(s, 1)

\* A. re.sub(r"^This (function|module|class|method) ", "", summary,
\*    IGNORECASE), applied when summary.lower() starts with "this function"
\*    or "this module"
StripThis(summary) ==
    IF \E n \in {"function", "module"} : HasAtFold(summary, 1, <<"this", SP, n>>)
    THEN IF Len(summary) >= 4 /\ summary[4] = SP THEN From(summary, 5)
         ELSE summary
    ELSE summary

\* B. imperative mood: summary.split(' ', 1)[0] looked up in the table
ImperativeMood(summary) ==
    IF /\ Len(summary) >= 1
       /\ Len(summary) >= 2 => summary[2] = SP
       /\ \E p \in IMPERATIVE_FIXES : p[1] = summary[1]
    THEN <<(CHOOSE p \in IMPERATIVE_FIXES : p[1] = summary[1])[2]>>
         \o Tail(summary)
    ELSE summary

\* C. capitalize the first letter
CapitalizeFirst(summary) ==
    IF Len(summary) >= 1 /\ summary[1] \in LowerWords
    THEN <<Capitalize(summary[1])>> \o Tail(summary) ELSE summary

\* the tokens whose last character is one of . ! ? :
EndsSentence == {".", "!", "?", ":"}

\* D. end with a period
EndWithPeriod(summary) ==
    LET t == Strip(summary)
    IN  IF t # <<>> /\ t[Len(t)] \notin EndsSentence
        THEN t \o <<".">> ELSE summary

\* PEP 257 enforcement on the first line
NormalizeSummary(s) ==
    LET q == NextNL(s, 1)
        summary == Upto(s, q - 1)
    IN  EndWithPeriod(CapitalizeFirst(ImperativeMood(StripThis(summary))))
        \o From(s, q)

clean_docstring(docstring, metadata) ==
    IF docstring = <<>> THEN <<>>
    ELSE LET quoted == CleanQuotes(ExtractWrapper(StripFence(
                           StripPreamble(Strip(docstring)))))
         IN  IF quoted = <<>> THEN <<>>
             ELSE Strip(NormalizeSummary(RemoveForbidden(
                      HallucinationControl(quoted, metadata))))

\* ------------------------------------------- generator.analyze_code_metadata
\* A source snippet is either text ast.parse rejects (parses = FALSE) or the
\* list of its syntax nodes in ast.walk order.  A node carries:
\*   type   Return | Yield | YieldFrom | Raise | FunctionDef | ClassDef | Other
\*   value  of a Return: "absent" (bare return), "None" (the constant None)
\*          or "expr"
\*   exc    of a Raise: "CallName" (raise E(...)), "Name" (raise E),
\*          "other" (raise mod.E(...), a bare raise)
\*   id     the exception name of a CallName / Name raise
\*   args   of a FunctionDef: its positional parameter names; of a ClassDef:
\*          those of its __init__ (init tells whether it has one)
Node(type, value, exc, id, args, init) ==
    [type |-> type, value |-> value, exc |-> exc, id |-> id, args |-> args,
     init |-> init]
FunctionDefNode(args) == Node("FunctionDef", "absent", "other", "", args, FALSE)
ClassDefNode(init, args) == Node("ClassDef", "absent", "other", "", args, init)
ReturnNode(value) == Node("Return", value, "other", "", <<>>, FALSE)
YieldNode == Node("Yield", "absent", "other", "", <<>>, FALSE)
RaiseNode(exc, id) == Node("Raise", "absent", exc, id, <<>>, FALSE)
OtherNode == Node("Other", "absent", "other", "", <<>>, FALSE)

\* [a.arg for a in args if a.arg != 'self']
RECURSIVE WithoutSelf(_)
WithoutSelf(args) ==
    IF args = <<>> THEN <<>>
    ELSE IF Head(args) = "self" THEN WithoutSelf(Tail(args))
    ELSE <<Head(args)>> \o WithoutSelf(Tail(args))

\* metadata["params"] after the walk has seen nodes k.. with params so far
RECURSIVE WalkParams(_, _, _)
WalkParams(nodes, k, params) ==
    IF k > Len(nodes) THEN params
    ELSE LET n == nodes[k]
             p == IF params # <<>> THEN params
                  ELSE IF n.type = "FunctionDef" THEN WithoutSelf(n.args)
                  ELSE IF n.type = "ClassDef" /\ n.init THEN WithoutSelf(n.args)
                  ELSE params
         IN  WalkParams(nodes, k + 1, p)

analyze_code_metadata(source_code) ==
    IF ~source_code.parses
    THEN \* except: "fail safe" sets has_return and has_yield only
         [given |-> TRUE, has_return |-> TRUE, has_yield |-> TRUE,
          raised_exceptions |-> {}, params |-> <<>>]
    ELSE LET nodes == source_code.nodes
             N == 1..Len(nodes)
         IN  [given |-> TRUE,
              has_return |-> \E k \in N : nodes[k].type = "Return"
                                          /\ nodes[k].value = "expr",
              has_yield |-> \E k \in N : nodes[k].type \in {"Yield", "YieldFrom"},
              raised_exceptions |->
                  {nodes[k].id : k \in {j \in N : nodes[j].type = "Raise"
                                        /\ nodes[j].exc \in {"CallName", "Name"}}},
              params |-> WalkParams(nodes, 1, <<>>)]

\* ------------------------------------------------ review_engine.groq_review

Indent4 == <<SP, SP, SP, SP>>

fallback_docstring(style) ==
    IF style = "google"
    THEN <<"Summary", ".", NL, NL, "Args", ":", NL>> \o Indent4
         \o <<"param", ":", SP, "Description", ".", NL, NL, "Returns", ":", NL>>
         \o Indent4 \o <<"Type", ":", SP, "Description", ".", NL>>
    ELSE IF style = "numpy"
    THEN <<"Summary", ".", NL, NL, "Parameters", NL, DASHES, NL,
           "param", SP, ":", SP, "type", NL>> \o Indent4
         \o <<"Description", ".", NL, NL, "Returns", NL, DASHES, NL, "type", NL>>
         \o Indent4 \o <<"Description", ".", NL>>
    ELSE <<"Summary", ".", NL, NL, ":", "param", SP, "param", ":", SP,
           "Description", NL, ":", "return", ":", SP, "Description", NL>>

\* str(e) of the exceptions the try block of _call_groq can end with
ErrorMessage(e) ==
    IF e = "no_api_key" THEN <<"No", SP, "API", SP, "key">>
    ELSE <<"API", SP, "Error">>

\* What the try block of _call_groq does, given the module's client and the
\* environment's answers: key (GROQ_API_KEY is set), construct (Groq(...)
\* returns) and reply (the completion, or "error" when create() raises).
\* The outcome is the exception raised in the block, or "ok".
TryOutcome(client, env) ==
    IF ~client /\ ~env.key THEN "no_api_key"
    ELSE IF ~client /\ ~env.construct THEN "client_error"
    ELSE IF env.reply = "error" THEN "request_error"
    ELSE "ok"

\* _GROQ_CLIENT after the call
ClientAfter(client, env) == client \/ (env.key /\ env.construct)

\* the completions the provider gives (message.content)
Completions ==
    [plain |-> <<"calculates", SP, "the", SP, "sum", NL>>,
     full  |-> <<"Summary", ".", NL, NL, "Returns", ":", NL>> \o Indent4
               \o <<"int", ":", SP, "x", ".", NL, NL, "Raises", ":", NL>>
               \o Indent4 \o <<"ValueError", ":", SP, "x", ".">>]

\* _call_groq without its except clause: a failure of the block escapes
CallGroqUncaught(style, client, env) ==
    LET e == TryOutcome(client, env)
    IN  [raised |-> e # "ok", failed |-> e # "ok",
         text |-> IF e = "ok" THEN Strip(Completions[env.reply]) ELSE <<>>]

\* _call_groq: [raised, text]; except Exception turns every failure of the
\* block into the marked fallback text
_call_groq(style, client, env) ==
    LET e == TryOutcome(client, env)
    IN  IF e = "ok"
        THEN [raised |-> FALSE, failed |-> FALSE,
              text |-> Strip(Completions[env.reply])]
        ELSE [raised |-> FALSE, failed |-> TRUE,
              text |-> <<"Error", ":", SP>> \o ErrorMessage(e)
                       \o <<NL, NL, "(", "Fallback", ")", NL>>
                       \o fallback_docstring(style)]

\* ------------------------------------ docstring_engine.ai_validator

\* positions where ^ matches under re.MULTILINE
LineStarts(s) == {i \in 1..Len(s) : i = 1 \/ s[i - 1] = NL}

\* the first position at or after i where pat occurs, 0 if none
Find(s, i, pat) ==
    IF \E j \in i..Len(s) : HasAt(s, j, pat)
    THEN CHOOSE j \in i..Len(s) :
             HasAt(s, j, pat) /\ \A k \in i..(j - 1) : ~HasAt(s, k, pat)
    ELSE 0

\* a token is at position i of s and is a word (\w+)
WordAt(s, i) == i >= 1 /\ i <= Len(s) /\ s[i] \in Words

\* s has token t at position i
TokenAt(s, i, t) == i >= 1 /\ i <= Len(s) /\ s[i] = t

\* \n\s*[A-Z] matches at q
CapitalLineAfter(s, q) ==
    /\ TokenAt(s, q, NL)
    /\ LET n == SkipWS(s, q + 1) IN n <= Len(s) /\ s[n] \in UpperWords

\* \n\s*\n matches at q
BlankLineAt(s, q) ==
    /\ TokenAt(s, q, NL)
    /\ \E k \in (q + 1)..(SkipWS(s, q + 1) - 1) : s[k] = NL

\* \n\s*\n|\n\s*[A-Z] matches at q
NumpyStop(s, q) == BlankLineAt(s, q) \/ CapitalLineAfter(s, q)

\* the stop of a section's content matches at q
StopAt(s, q, section) ==
    IF section = "Args" THEN CapitalLineAfter(s, q) ELSE NumpyStop(s, q)

\* (.+?)(stop|$) from c: the group, which ends before the first stop after
\* its first token, or at the end of s
LazyUntil(s, c, section) ==
    IF \E q \in (c + 1)..Len(s) : StopAt(s, q, section)
    THEN SubSeq(s, c, (CHOOSE q \in (c + 1)..Len(s) :
                          /\ StopAt(s, q, section)
                          /\ \A k \in (c + 1)..(q - 1) : ~StopAt(s, k, section))
                      - 1)
    ELSE From(s, c)

\* ^\s*(\w+)(?:\s*\(.*?\))?\s*: matches at line start p of s
GoogleArgAt(s, p) ==
    LET w == SkipWS(s, p)
        g == SkipWS(s, w + 1)
    IN  /\ WordAt(s, w)
        /\ \/ TokenAt(s, g, ":")
           \/ /\ TokenAt(s, g, "(")
              /\ \E c \in (g + 1)..(NextNL(s, g + 1) - 1) :
                     s[c] = ")" /\ TokenAt(s, SkipWS(s, c + 1), ":")

\* re.search(r"Args:\s*(.+?)(\n\s*[A-Z]|$)", doc, re.DOTALL), then
\* re.findall(r"^\s*(\w+)(?:\s*\(.*?\))?\s*:", content, re.MULTILINE)
GoogleParams(doc) ==
    LET i == Find(doc, 1, <<"Args", ":">>)
        c == SkipWS(doc, i + 2)
    IN  IF i = 0 \/ c > Len(doc) THEN {}
        ELSE LET content == LazyUntil(doc, c, "Args")
             IN  {content[SkipWS(content, p)] :
                     p \in {q \in LineStarts(content) : GoogleArgAt(content, q)}}

\* Parameters\n\s*-+\s*\n matches at i: the position after it, 0 if it does not
NumpyHeaderEnd(doc, i) ==
    LET d == SkipWS(doc, i + 2)
        e == SkipWS(doc, d + 1)
        breaks == {k \in (d + 1)..(e - 1) : doc[k] = NL}
    IN  IF /\ HasAt(doc, i, <<"Parameters", NL>>)
           /\ TokenAt(doc, d, DASHES)
           /\ breaks # {}
           /\ e <= Len(doc)
        THEN Max(breaks) + 1 ELSE 0

\* ^\s*(\w+)\s*: matches at line start p
NumpyArgAt(s, p) ==
    LET w == SkipWS(s, p)
    IN  WordAt(s, w) /\ TokenAt(s, SkipWS(s, w + 1), ":")

\* ^\s*(\w+)(?:\s*:\s*.*)?$ matches at line start p of a text no line of
\* which matches NumpyArgAt: a word that ends its line
LooseArgAt(s, p) ==
    LET w == SkipWS(s, p)
    IN  WordAt(s, w) /\ (w = Len(s) \/ TokenAt(s, w + 1, NL))

\* re.search(r"Parameters\n\s*-+\s*\n(.+?)(\n\s*\n|\n\s*[A-Z]|$)", doc,
\* re.DOTALL), then the strict pattern and, when it finds nothing, the loose
NumpyParams(doc) ==
    LET heads == {i \in 1..Len(doc) : NumpyHeaderEnd(doc, i) # 0}
    IN  IF heads = {} THEN {}
        ELSE LET content ==
                     LazyUntil(doc, NumpyHeaderEnd(doc, Min(heads)), "Parameters")
                 strict == {p \in LineStarts(content) : NumpyArgAt(content, p)}
                 loose == {p \in LineStarts(content) : LooseArgAt(content, p)}
             IN  {content[SkipWS(content, p)] :
                     p \in IF strict # {} THEN strict ELSE loose}

\* re.findall(r":param\s+(?:\w+\s+)?(\w+):", doc)
RestParams(doc) ==
    LET plain == {i \in 1..Len(doc) :
                     /\ HasAt(doc, i, <<":", "param">>)
                     /\ TokenAt(doc, i + 2, SP) \/ TokenAt(doc, i + 2, NL)
                     /\ WordAt(doc, SkipWS(doc, i + 2))
                     /\ TokenAt(doc, SkipWS(doc, i + 2) + 1, ":")}
        typed == {i \in 1..Len(doc) :
                     LET a == SkipWS(doc, i + 2)
                         b == SkipWS(doc, a + 1)
                     IN  /\ HasAt(doc, i, <<":", "param">>)
                         /\ TokenAt(doc, i + 2, SP) \/ TokenAt(doc, i + 2, NL)
                         /\ WordAt(doc, a)
                         /\ b > a + 1
                         /\ WordAt(doc, b)
                         /\ TokenAt(doc, b + 1, ":")}
    IN  {doc[SkipWS(doc, i + 2)] : i \in plain}
        \cup {doc[SkipWS(doc, SkipWS(doc, i + 2) + 1)] : i \in typed}

\* the extraction with the strategy of the declared style only
ExtractDeclaredStyleOnly(docstring, style) ==
    LET doc == Strip(docstring)
    IN  CASE style = "google" -> GoogleParams(doc)
          [] style = "numpy" -> NumpyParams(doc)
          [] OTHER -> RestParams(doc)

_extract_documented_params(docstring, style) ==
    LET doc == Strip(docstring)
    IN  GoogleParams(doc) \cup NumpyParams(doc) \cup RestParams(doc)

\* an absent value
None == <<"none">>

\* ValidationIssue; subject is the name the message is about
Issue(severity, code, subject, suggestion) ==
    [severity |-> severity, code |-> code, subject |-> subject,
     suggestion |-> suggestion]

\* the issues of a loop over a set, in the order the set is iterated
RECURSIVE IssuesOf(_, _, _, _)
IssuesOf(names, severity, code, verb) ==
    IF names = {} THEN <<>>
    ELSE LET n == CHOOSE n \in names : TRUE
         IN  <<Issue(severity, code, n, <<verb, n>>)>>
             \o IssuesOf(names \ {n}, severity, code, verb)

\* name.lstrip("*")
LStripStars(name) ==
    CASE name = "*args" -> "args"
      [] name = "**kwargs" -> "kwargs"
      [] name = "*" -> ""
      [] OTHER -> name

\* the parameter check with the receiver counted as a parameter
ValidateParametersWithReceiver(docstring, func_meta, style) ==
    LET expected_params == {LStripStars(func_meta.args[k]) :
                               k \in 1..Len(func_meta.args)} \ {""}
        documented_params == _extract_documented_params(docstring, style)
    IN  IssuesOf(expected_params \ documented_params,
                 "warning", "MISSING_PARAM", "Add")
        \o IssuesOf(documented_params \ expected_params,
                    "error", "EXTRA_PARAM", "Remove")

_validate_parameters(docstring, func_meta, style) ==
    LET stripped == {LStripStars(func_meta.args[k]) :
                        k \in 1..Len(func_meta.args)}
        expected_params == stripped \ {"", "self", "cls"}
        documented_params == _extract_documented_params(docstring, style)
    IN  IssuesOf(expected_params \ documented_params,
                 "warning", "MISSING_PARAM", "Add")
        \o IssuesOf(documented_params \ expected_params,
                    "error", "EXTRA_PARAM", "Remove")

_validate_returns(docstring, func_meta, style) ==
    LET has_return == func_meta.returns_value
        is_generator == func_meta.is_generator
        has_returns_doc ==
            \E pattern \in {<<"Returns", ":">>, <<"Returns", NL>>,
                            <<":", "returns", ":">>, <<":", "return", ":">>} :
                Contains(docstring, pattern)
        has_yields_doc ==
            \E pattern \in {<<"Yields", ":">>, <<"Yields", NL>>,
                            <<":", "yields", ":">>} :
                Contains(docstring, pattern)
    IN  (IF has_return /\ ~has_returns_doc /\ ~is_generator
         THEN <<Issue("warning", "MISSING_RETURN", "", <<>>)>> ELSE <<>>)
        \o (IF ~has_return /\ has_returns_doc /\ ~is_generator
            THEN <<Issue("warning", "UNNECESSARY_RETURN", "",
                         <<"Remove", "Returns">>)>> ELSE <<>>)
        \o (IF is_generator /\ ~has_yields_doc
            THEN <<Issue("warning", "MISSING_YIELDS", "", <<>>)>> ELSE <<>>)

FALSE_POSITIVE_EXCEPTIONS ==
    {"TypeError", "AttributeError", "KeyError", "IndexError", "RuntimeError",
     "Exception"}

\* docstring.split(marker)[1].split("\n\n")[0]
SectionAfter(docstring, marker) ==
    LET i == Find(docstring, 1, marker)
        rest == From(docstring, i + Len(marker))
        j == Find(rest, 1, marker)
        piece == IF j = 0 THEN rest ELSE Upto(rest, j - 1)
        b == Find(piece, 1, <<NL, NL>>)
    IN  IF b = 0 THEN piece ELSE Upto(piece, b - 1)

\* re.findall(r"^\s{4}(\w+(?:Error|Exception)?)\s*:", section, re.MULTILINE)
GoogleRaises(section) ==
    {section[p + 4] :
        p \in {q \in LineStarts(section) :
                  /\ \A k \in q..(q + 3) : k <= Len(section) /\ section[k] \in WS
                  /\ WordAt(section, q + 4)
                  /\ TokenAt(section, SkipWS(section, q + 5), ":")}}

\* re.findall(r"^(\w+(?:Error|Exception)?)\s*$", section, re.MULTILINE)
NumpyRaises(section) ==
    {section[p] :
        p \in {q \in LineStarts(section) :
                  /\ WordAt(section, q)
                  /\ LET e == SkipWS(section, q + 1)
                     IN  \/ e > Len(section)
                         \/ \E k \in (q + 1)..(e - 1) : section[k] = NL}}

\* re.findall(r":raises\s+(\w+):", docstring)
RestRaises(docstring) ==
    {docstring[SkipWS(docstring, i + 2)] :
        i \in {j \in 1..Len(docstring) :
                  /\ HasAt(docstring, j, <<":", "raises">>)
                  /\ TokenAt(docstring, j + 2, SP) \/ TokenAt(docstring, j + 2, NL)
                  /\ WordAt(docstring, SkipWS(docstring, j + 2))
                  /\ TokenAt(docstring, SkipWS(docstring, j + 2) + 1, ":")}}

_validate_exceptions(docstring, func_meta, style) ==
    LET actual_raises == func_meta.raises
        documented_raises ==
            IF style = "google" /\ Contains(docstring, <<"Raises", ":">>)
            THEN GoogleRaises(SectionAfter(docstring, <<"Raises", ":">>))
            ELSE IF style = "numpy" /\ Contains(docstring, <<"Raises", NL>>)
            THEN NumpyRaises(SectionAfter(docstring, <<"Raises", NL>>))
            ELSE IF style = "rest" THEN RestRaises(docstring)
            ELSE {}
    IN  IssuesOf((documented_raises \ actual_raises) \ FALSE_POSITIVE_EXCEPTIONS,
                 "warning", "EXTRA_EXCEPTION", "Verify")

\* docstring.split('\n')[0]
FirstLine(s) == Upto(s, NextNL(s, 1) - 1)

_validate_pep257(docstring) ==
    LET first_line == Strip(FirstLine(docstring))
        n == Len(first_line)
    IN  (IF n > 0 /\ first_line[n] \notin {".", "!", "?"}
         THEN <<Issue("info", "D400", "", <<"Add", ".">>)>> ELSE <<>>)
        \o (IF n > 0 /\ first_line[1] \in LowerWords
            THEN <<Issue("info", "D403", "", <<"Capitalize", first_line[1]>>)>>
            ELSE <<>>)
        \o (IF n > 1 /\ Lower(first_line[1]) = "this" /\ first_line[2] = SP
            THEN <<Issue("info", "D404", "", <<"Rephrase">>)>> ELSE <<>>)

\* D400: add a period to the first line
AddPeriod(corrected) ==
    LET first == RStrip(FirstLine(corrected))
    IN  IF first # <<>> /\ first[Len(first)] \notin {".", "!", "?"}
        THEN first \o <<".">> \o From(corrected, NextNL(corrected, 1))
        ELSE corrected

\* D403: corrected[0].upper() + corrected[1:] when corrected[0].islower()
CapitalizeText(corrected) ==
    IF corrected # <<>> /\ corrected[1] \in LowerWords
    THEN <<Capitalize(corrected[1])>> \o Tail(corrected)
    ELSE corrected

\* re.sub(r"^This <noun>\s+", "", corrected, flags=re.IGNORECASE); noun is
\* <<>> for r"^This\s+"
DropThis(corrected, noun) ==
    LET head == IF noun = <<>> THEN <<"this">> ELSE <<"this", SP>> \o noun
        n == Len(head)
    IN  IF HasAtFold(corrected, 1, head)
           /\ (TokenAt(corrected, n + 1, SP) \/ TokenAt(corrected, n + 1, NL))
        THEN From(corrected, SkipWS(corrected, n + 1))
        ELSE corrected

\* D404: the five patterns in turn, then capitalize
RemoveThis(corrected) ==
    CapitalizeText(
        DropThis(DropThis(DropThis(DropThis(DropThis(corrected,
            <<"function">>), <<"method">>), <<"class">>), <<"module">>), <<>>))

RECURSIVE AutoCorrectFrom(_, _, _)
AutoCorrectFrom(corrected, issues, k) ==
    IF k > Len(issues) THEN corrected
    ELSE LET code == issues[k].code
             next == CASE code = "D400" -> AddPeriod(corrected)
                       [] code = "D403" -> CapitalizeText(corrected)
                       [] code = "D404" -> RemoveThis(corrected)
                       [] OTHER -> corrected
         IN  AutoCorrectFrom(next, issues, k + 1)

auto_correct(docstring, issues, func_meta, style) ==
    AutoCorrectFrom(docstring, issues, 1)

\* the number of issues of a severity
CountSeverity(issues, severity) ==
    Cardinality({k \in 1..Len(issues) : issues[k].severity = severity})

\* round(x, 2) of a value given in thousandths: hundredths, ties to even
Round2(x) ==
    LET q == x \div 10
        r == x % 10
    IN  IF r > 5 \/ (r = 5 /\ q % 2 = 1) THEN q + 1 ELSE q

\* the confidence without the lower limit max(0, ...)
ConfidenceUnclamped(issues) ==
    100 - CountSeverity(issues, "error") * 20
        - CountSeverity(issues, "warning") * 5

\* round(max(0, 1.0 - errors * 0.2 - warnings * 0.05), 2), in hundredths
Confidence(issues) ==
    LET error_count == CountSeverity(issues, "error")
        warning_count == CountSeverity(issues, "warning")
        confidence == 1000 - error_count * 200 - warning_count * 50
    IN  Round2(IF confidence > 0 THEN confidence ELSE 0)

\* ValidationResult; confidence_score in hundredths, corrected_docstring
\* None when absent
ValidationResult(is_valid, issues, corrected_docstring, confidence_score) ==
    [is_valid |-> is_valid, issues |-> issues,
     corrected_docstring |-> corrected_docstring,
     confidence_score |-> confidence_score]

\* validate_docstring with a result that is valid only without any issue
ValidateDocstringNoIssues(docstring, func_meta, style) ==
    IF docstring = <<>>
    THEN ValidationResult(FALSE, <<Issue("error", "EMPTY_DOCSTRING", "", <<>>)>>,
                          None, 100)
    ELSE LET issues == _validate_parameters(docstring, func_meta, style)
                       \o _validate_returns(docstring, func_meta, style)
                       \o _validate_exceptions(docstring, func_meta, style)
                       \o _validate_pep257(docstring)
         IN  ValidationResult(
                 issues = <<>>,
                 issues,
                 IF issues # <<>>
                 THEN auto_correct(docstring, issues, func_meta, style)
                 ELSE None,
                 Confidence(issues))

validate_docstring(docstring, func_meta, style) ==
    IF docstring = <<>>
    THEN ValidationResult(FALSE, <<Issue("error", "EMPTY_DOCSTRING", "", <<>>)>>,
                          None, 100)
    ELSE LET issues == _validate_parameters(docstring, func_meta, style)
                       \o _validate_returns(docstring, func_meta, style)
                       \o _validate_exceptions(docstring, func_meta, style)
                       \o _validate_pep257(docstring)
         IN  ValidationResult(
                 CountSeverity(issues, "error") = 0,
                 issues,
                 IF issues # <<>>
                 THEN auto_correct(docstring, issues, func_meta, style)
                 ELSE None,
                 Confidence(issues))

\* ------------------------------------------------------------ src.py_parser

\* A file: what open() does with its path ("ok" or the exception raised),
\* whether its bytes are valid UTF-8, the kinds of the lines of its text
\* (content.split('\n')), what ast.parse does with the text ("ok" or the
\* exception raised) and the body of the module it parses to.
\* A node of the tree: its type, its name, whether a call of ast.unparse
\* that the visit makes for it without a guard (a decorator, an annotated
\* class attribute) succeeds, and its body.
TreeNode(type, name, unparse, body) ==
    [type |-> type, name |-> name, unparse |-> unparse, body |-> body]

\* ParseResult(success=False, file_path=file_path)
NewResult ==
    [success |-> FALSE, functions |-> <<>>, classes |-> <<>>,
     imports |-> <<>>, errors |-> <<>>, raw_metrics |-> <<>>]

\* ParseError, by its error_type
ParseError(error_type) == [error_type |-> error_type]

\* the number of lines of a kind
CountLines(lines, kind) ==
    Cardinality({k \in 1..Len(lines) : lines[k] = kind})

calculate_raw_metrics(lines) ==
    LET total_loc == Len(lines)
        blank_lines == CountLines(lines, "blank")
        comment_lines == CountLines(lines, "comment")
    IN  [total_loc |-> total_loc,
         sloc |-> total_loc - blank_lines - comment_lines,
         blank_lines |-> blank_lines, comment_lines |-> comment_lines]

\* the encodings tried in turn, and those that decode the file: latin-1
\* decodes every byte sequence
Encodings == <<"utf-8", "utf-8-sig", "latin-1", "cp1252">>
Decodes(file, encoding) == file.utf8 \/ encoding \in {"latin-1", "cp1252"}

\* the reading loop from the k-th encoding on: "content" when one decoded
\* the file, "none" when none did, else the exception open() raised
RECURSIVE ReadFrom(_, _)
ReadFrom(file, k) ==
    IF k > Len(Encodings) THEN "none"
    ELSE IF file.open # "ok" THEN file.open
    ELSE IF Decodes(file, Encodings[k]) THEN "content"
    ELSE ReadFrom(file, k + 1)

\* the node types that add 1 to the complexity
ComplexityNodes ==
    {"If", "For", "AsyncFor", "While", "Try", "ExceptHandler", "With",
     "AsyncWith", "BoolOp", "IfExp"}

\* the nodes of ComplexityNodes that ast.walk(node) yields: the walk goes
\* through every descendant, the bodies of nested definitions included
RECURSIVE WalkCount(_)
RECURSIVE WalkCountFrom(_, _)
WalkCountFrom(body, k) ==
    IF k > Len(body) THEN 0
    ELSE WalkCount(body[k]) + WalkCountFrom(body, k + 1)

WalkCount(node) ==
    (IF node.type \in ComplexityNodes THEN 1 ELSE 0)
        + WalkCountFrom(node.body, 1)

\* analyze_function_body(node): the complexity of the metadata
analyze_function_body(node) == [complexity |-> 1 + WalkCount(node)]

\* visit_nodes: acc holds functions, classes, imports and the exception
\* raised so far ("none" when none)
RECURSIVE visit_nodes(_, _, _, _)
RECURSIVE VisitBody(_, _, _, _, _)
VisitBody(body, k, parent_class, nesting_level, acc) ==
    IF k > Len(body) \/ acc.raised # "none" THEN acc
    ELSE VisitBody(body, k + 1, parent_class, nesting_level,
                   visit_nodes(body[k], parent_class, nesting_level, acc))

visit_nodes(node, parent_class, nesting_level, acc) ==
    IF node.type \in {"FunctionDef", "AsyncFunctionDef"}
    THEN IF node.unparse # "ok" THEN [acc EXCEPT !.raised = node.unparse]
         ELSE VisitBody(node.body, 1, parent_class, nesting_level + 1,
                  [acc EXCEPT !.functions =
                      Append(@, [name |-> node.name, parent |-> parent_class,
                                 complexity |->
                                     analyze_function_body(node).complexity,
                                 is_method |-> parent_class # "",
                                 nesting_level |-> nesting_level])])
    ELSE IF node.type = "ClassDef"
    THEN IF node.unparse # "ok" THEN [acc EXCEPT !.raised = node.unparse]
         ELSE VisitBody(node.body, 1, node.name, 0,
                  [acc EXCEPT !.classes = Append(@, [name |-> node.name])])
    ELSE IF node.type \in {"Import", "ImportFrom"}
    THEN [acc EXCEPT !.imports = Append(@, node.name)]
    ELSE acc

\* parse_python_file_enhanced(file_path): the exception that escapes it
\* ("none" when it returns) and the ParseResult it returns
parse_python_file_enhanced(file) ==
    LET result == NewResult
        read == ReadFrom(file, 1)
        Returns(r) == [raised |-> "none", result |-> r]
        Fails(error_type) ==
            Returns([result EXCEPT !.errors = <<ParseError(error_type)>>])
        visited == VisitBody(file.tree, 1, "", 0,
                       [functions |-> <<>>, classes |-> <<>>,
                        imports |-> <<>>, raised |-> "none"])
    IN  IF read \in {"FileNotFoundError", "PermissionError"} THEN Fails(read)
        ELSE IF read = "none" THEN Fails("EncodingError")
        ELSE IF read # "content" THEN [raised |-> read, result |-> result]
        ELSE IF \A k \in 1..Len(file.lines) : file.lines[k] = "blank"
        THEN Returns([result EXCEPT
                         !.success = TRUE,
                         !.raw_metrics = calculate_raw_metrics(file.lines)])
        ELSE IF file.parse # "ok" THEN Fails(file.parse)
        ELSE IF visited.raised # "none"
        THEN [raised |-> visited.raised, result |-> result]
        ELSE Returns([result EXCEPT
                         !.raw_metrics = calculate_raw_metrics(file.lines),
                         !.functions = visited.functions,
                         !.classes = visited.classes,
                         !.imports = visited.imports,
                         !.success = TRUE])

\* ------------------------------------------------------ core.metrics_engine

\* the thresholds of the classifications
COMPLEXITY_THRESHOLDS == [warning |-> 6, critical |-> 10]
LOC_THRESHOLDS == [warning |-> 50, critical |-> 100]
PARAM_THRESHOLDS == [warning |-> 5, critical |-> 10]
NESTING_THRESHOLDS == [warning |-> 3, critical |-> 5]

\* the weights of the health score, in hundredths
HEALTH_WEIGHTS ==
    [documentation |-> 30, complexity |-> 35, size |-> 20, structure |-> 15]

\* classify_metric with the critical threshold itself rated Critical
ClassifyCriticalInclusive(value, thresholds) ==
    IF value >= thresholds.critical THEN "Critical"
    ELSE IF value >= thresholds.warning THEN "Warning"
    ELSE "Good"

classify_metric(value, thresholds) ==
    IF value > thresholds.critical THEN "Critical"
    ELSE IF value >= thresholds.warning THEN "Warning"
    ELSE "Good"

rating_to_score(rating) ==
    CASE rating = "Good" -> 100
      [] rating = "Warning" -> 60
      [] rating = "Critical" -> 20
      [] OTHER -> 50

\* re.findall(r":param\s+(\w+):", doc)
MetricsRestParams(doc) ==
    {doc[SkipWS(doc, i + 2)] :
        i \in {j \in 1..Len(doc) :
                  /\ HasAt(doc, j, <<":", "param">>)
                  /\ TokenAt(doc, j + 2, SP) \/ TokenAt(doc, j + 2, NL)
                  /\ WordAt(doc, SkipWS(doc, j + 2))
                  /\ TokenAt(doc, SkipWS(doc, j + 2) + 1, ":")}}

\* MetricsEngine._extract_docstring_params: the three strategies, unioned
_extract_docstring_params(docstring, style) ==
    IF docstring = <<>> THEN {}
    ELSE LET doc == Strip(docstring)
         IN  GoogleParams(doc) \cup NumpyParams(doc) \cup MetricsRestParams(doc)

\* radon.complexity.cc_rank: A for 1..5, B for 6..10, C for 11..20, D for
\* 21..30, E for 31..40, F above
cc_rank(cc) ==
    CASE cc <= 5 -> "A"
      [] cc <= 10 -> "B"
      [] cc <= 20 -> "C"
      [] cc <= 30 -> "D"
      [] cc <= 40 -> "E"
      [] OTHER -> "F"

\* the grade and the rating of the complexity: by radon when it can be
\* imported, by the thresholds otherwise
ComplexityGrade(complexity, radon_installed) ==
    IF radon_installed THEN cc_rank(complexity) ELSE "N/A"

ComplexityRating(complexity, radon_installed) ==
    IF radon_installed
    THEN LET grade == cc_rank(complexity)
         IN  IF grade \in {"A", "B"} THEN "Good"
             ELSE IF grade = "C" THEN "Warning"
             ELSE "Critical"
    ELSE classify_metric(complexity, COMPLEXITY_THRESHOLDS)

\* doc_correctness without the clamp max(0.0, min(100.0, final_score))
DocCorrectnessUnclamped(has_docstring, code_params, doc_params) ==
    LET code_set == {code_params[k] : k \in 1..Len(code_params)}
        n == Cardinality(code_set)
    IN  IF ~has_docstring THEN [num |-> 0, den |-> 1]
        ELSE IF code_params = <<>> /\ doc_params = {}
        THEN [num |-> 100, den |-> 1]
        ELSE IF code_params = <<>> THEN [num |-> 50, den |-> 1]
        ELSE IF doc_params = {} THEN [num |-> 60, den |-> 1]
        ELSE [num |-> 100 * Cardinality(code_set \cap doc_params)
                      - 10 * Cardinality(doc_params \ code_set) * n,
              den |-> n]

\* A score that is not a whole number is kept as a fraction [num, den].
\* doc_correctness: 0 without a docstring, else by the parameters of the
\* code and of the docstring
DocCorrectness(has_docstring, code_params, doc_params) ==
    LET code_set == {code_params[k] : k \in 1..Len(code_params)}
        common == code_set \cap doc_params
        extra == doc_params \ code_set
        n == Cardinality(code_set)
        final_score == 100 * Cardinality(common) - 10 * Cardinality(extra) * n
    IN  IF ~has_docstring THEN [num |-> 0, den |-> 1]
        ELSE IF code_params = <<>> /\ doc_params = {}
        THEN [num |-> 100, den |-> 1]
        ELSE IF code_params = <<>> THEN [num |-> 50, den |-> 1]
        ELSE IF doc_params = {} THEN [num |-> 60, den |-> 1]
        ELSE [num |-> Max({0, Min({100 * n, final_score})}), den |-> n]

\* round(x, 1) of the fraction x, in tenths (a tie goes to the even tenth)
RoundTenths(x) ==
    LET q == (10 * x.num) \div x.den
        r == (10 * x.num) % x.den
    IN  IF 2 * r > x.den \/ (2 * r = x.den /\ q % 2 = 1) THEN q + 1 ELSE q

\* the weighted sum of the four scores, as a fraction
HealthScore(doc_score, complexity_score, size_score, structure_score) ==
    [num |-> HEALTH_WEIGHTS.documentation * doc_score.num
             + (HEALTH_WEIGHTS.complexity * complexity_score
                + HEALTH_WEIGHTS.size * size_score
                + HEALTH_WEIGHTS.structure * structure_score) * doc_score.den,
     den |-> 100 * doc_score.den]

\* the rating of the health score, taken before it is rounded
HealthRating(health_score) ==
    IF health_score.num >= 80 * health_score.den THEN "Healthy"
    ELSE IF health_score.num >= 50 * health_score.den THEN "Needs Attention"
    ELSE "Critical"

\* MetricsEngine.compute_function_metrics; doc_coverage and health_score in
\* tenths
compute_function_metrics(func_data, radon_installed) ==
    LET complexity == func_data.complexity
        loc == func_data.loc
        code_params == func_data.args
        param_count == Len(code_params)
        nesting_level == func_data.nesting_level
        docstring == func_data.docstring
        has_docstring == docstring # <<>>
        doc_params == _extract_docstring_params(docstring, func_data.style)
        doc_score == DocCorrectness(has_docstring, code_params, doc_params)
        complexity_rating == ComplexityRating(complexity, radon_installed)
        loc_rating == classify_metric(loc, LOC_THRESHOLDS)
        param_rating == classify_metric(param_count, PARAM_THRESHOLDS)
        nesting_rating == classify_metric(nesting_level, NESTING_THRESHOLDS)
        structure_score ==
            (rating_to_score(param_rating) + rating_to_score(nesting_rating))
                \div 2
        health_score ==
            HealthScore(doc_score, rating_to_score(complexity_rating),
                        rating_to_score(loc_rating), structure_score)
    IN  [complexity_score |-> complexity,
         complexity_rating |-> complexity_rating,
         complexity_grade |-> ComplexityGrade(complexity, radon_installed),
         loc |-> loc,
         loc_rating |-> loc_rating,
         param_count |-> param_count,
         param_rating |-> param_rating,
         nesting_level |-> nesting_level,
         nesting_rating |-> nesting_rating,
         has_docstring |-> has_docstring,
         docstring_style |-> func_data.style,
         doc_coverage |-> RoundTenths(doc_score),
         health_score |-> RoundTenths(health_score),
         health_rating |-> HealthRating(health_score),
         total_params |-> param_count]

\* ------------------------------------------- project-level aggregation

RECURSIVE SeqSum(_)
SeqSum(s) == IF s = <<>> THEN 0 ELSE s[1] + SeqSum(Tail(s))

\* round(x) of the fraction x to an integer (a tie goes to the even one)
RoundFrac(x) ==
    LET q == x.num \div x.den
        r == x.num % x.den
    IN  IF 2 * r > x.den \/ (2 * r = x.den /\ q % 2 = 1) THEN q + 1 ELSE q

\* f.get("doc_coverage", 100 if f.get("docstring") else 0), in tenths;
\* scored: the record has the key doc_coverage
FuncCoverage(f) ==
    IF f.scored THEN f.doc_coverage
    ELSE IF f.docstring THEN 1000 ELSE 0

\* the banding of the average complexity sum / n
ComplexityBand(sum, n) ==
    IF sum < 6 * n THEN 100 ELSE IF sum < 10 * n THEN 60 ELSE 20

\* severity_dist: the functions per classification of their complexity
SeverityDist(functions) ==
    [rating \in {"Good", "Warning", "Critical"} |->
        Cardinality({k \in 1..Len(functions) :
            classify_metric(functions[k].complexity, COMPLEXITY_THRESHOLDS)
                = rating})]

\* the result for no function and no class
EmptyAggregate ==
    [total_functions |-> 0, total_classes |-> 0, coverage_pct |-> 0,
     avg_complexity |-> 0, avg_loc |-> 0, generator_count |-> 0,
     async_count |-> 0, total_exceptions |-> 0, max_complexity |-> 0,
     health_score |-> 0]

\* MetricsEngine.aggregate_metrics; coverage_pct and avg_complexity in
\* hundredths, avg_loc and health_score in tenths
aggregate_metrics(functions, classes) ==
    LET total_funcs == Len(functions)
        total_classes == Len(classes)
        total_items == total_funcs + total_classes
        func_coverage_sum ==
            SeqSum([k \in 1..total_funcs |-> FuncCoverage(functions[k])])
        class_coverage_sum ==
            SeqSum([k \in 1..total_classes |->
                        IF classes[k].docstring THEN 1000 ELSE 0])
        coverage_sum == func_coverage_sum + class_coverage_sum
        complexities == [k \in 1..total_funcs |-> functions[k].complexity]
        locs == [k \in 1..total_funcs |-> functions[k].loc]
        n == IF total_funcs > 0 THEN total_funcs ELSE 1
        severity_dist == SeverityDist(functions)
        good == IF total_funcs > 0 THEN severity_dist["Good"] ELSE 1
        band == ComplexityBand(SeqSum(complexities), n)
    IN  IF total_items = 0 THEN EmptyAggregate
        ELSE
        [total_functions |-> total_funcs,
         total_classes |-> total_classes,
         coverage_pct |->
             RoundFrac([num |-> 10 * coverage_sum, den |-> total_items]),
         avg_complexity |->
             RoundFrac([num |-> 100 * SeqSum(complexities), den |-> n]),
         avg_loc |-> RoundFrac([num |-> 10 * SeqSum(locs), den |-> n]),
         max_complexity |->
             IF total_funcs > 0
             THEN Max({complexities[k] : k \in 1..total_funcs}) ELSE 0,
         generator_count |->
             Cardinality({k \in 1..total_funcs : functions[k].is_generator}),
         async_count |->
             Cardinality({k \in 1..total_funcs : functions[k].is_async}),
         total_exceptions |->
             SeqSum([k \in 1..total_funcs |-> Len(functions[k].raises)]),
         severity_distribution |-> severity_dist,
         health_score |->
             RoundFrac([num |-> 35 * coverage_sum * n
                                + 350 * band * total_items * n
                                + 30000 * good * total_items,
                        den |-> 100 * total_items * n])]

\* --------------------------------------------------- the generation cache

\* bounds of the model
NumCallers == 2
MaxRequests == 3
\* the capacity of the cache, scaled down from lru_cache(maxsize=128)
CacheSize == 2

Callers == 1..NumCallers

SrcVoid == [name |-> "def foo(): pass", parses |-> TRUE,
            nodes |-> <<FunctionDefNode(<<>>), OtherNode>>]
SrcRaise == [name |-> "def foo(a): raise ValueError(a); return a",
             parses |-> TRUE,
             nodes |-> <<FunctionDefNode(<<"a">>),
                         RaiseNode("CallName", "ValueError"),
                         ReturnNode("expr")>>]
SrcBroken == [name |-> "def broken(", parses |-> FALSE, nodes |-> <<>>]

\* the requests made: <<source_code, style, is_module>>
Requests ==
    {<<SrcVoid, "google", FALSE>>, <<SrcVoid, "google", TRUE>>,
     <<SrcVoid, "numpy", FALSE>>, <<SrcRaise, "google", FALSE>>,
     <<SrcVoid, "rest", FALSE>>}

\* hashlib.md5(source_code.encode("utf-8")).hexdigest(): a fingerprint of
\* the content alone
md5(source_code) == <<"md5", source_code.name>>

\* the arguments of _cached_gen, which lru_cache uses as the key
CacheKey(source_code, style, is_module) ==
    <<md5(source_code), style, source_code, is_module>>

Keys == {CacheKey(r[1], r[2], r[3]) : r \in Requests}

\* lru_cache: the position of key's entry, 0 on a miss
Lookup(c, key) ==
    IF \E i \in 1..Len(c) : c[i].key = key
    THEN CHOOSE i \in 1..Len(c) : c[i].key = key ELSE 0

Without(c, i) == SubSeq(c, 1, i - 1) \o SubSeq(c, i + 1, Len(c))

\* a hit moves the entry to the most recently used end
Touch(c, i) == Without(c, i) \o <<c[i]>>

\* after the wrapped call: nothing is stored when the key was added
\* meanwhile; a full cache drops its oldest entry first
Store(c, key, value) ==
    IF Lookup(c, key) # 0 THEN c
    ELSE IF Len(c) < CacheSize THEN Append(c, [key |-> key, value |-> value])
    ELSE Append(Tail(c), [key |-> key, value |-> value])

\* the snippet of a run that is given no structural facts
NoSnippet == [name |-> "", parses |-> FALSE, nodes |-> <<>>]

\* no cleaning run is modelled
CleanOff ==
    /\ raw_text = <<>>
    /\ snippet = NoSnippet
    /\ facts = NoFacts
    /\ cleaned = <<>>
    /\ recleaned = <<>>
    /\ checked = None
    /\ clean_pc = "off"

\* the metadata of a function without parameters, return value or raise
NoFunction ==
    [args |-> <<>>, returns_value |-> FALSE, is_generator |-> FALSE,
     raises |-> {}]

\* no validator run is modelled
ValOff ==
    /\ candidate = <<>>
    /\ function = NoFunction
    /\ declared_style = "google"
    /\ validation = None
    /\ recorrected = None
    /\ revalidation = None
    /\ val_pc = "off"

\* an empty file
NoFile ==
    [open |-> "ok", utf8 |-> TRUE, lines |-> <<"blank">>, parse |-> "ok",
     tree |-> <<>>]

\* no parser call is modelled
ParseOff ==
    /\ file_in = NoFile
    /\ outcome = None
    /\ escaped = "none"
    /\ parse_pc = "off"

\* the record of a function without parameters and without docstring
NoFuncData ==
    [args |-> <<>>, docstring |-> <<>>, style |-> "unknown",
     complexity |-> 1, loc |-> 1, nesting_level |-> 0]

\* no metrics call is modelled
MetricsOff ==
    /\ func_record = NoFuncData
    /\ radon = "absent"
    /\ metrics = None
    /\ met_pc = "off"

AggOff ==
    /\ project_functions = <<>>
    /\ project_classes = <<>>
    /\ aggregate = None
    /\ agg_pc = "off"

Idle == [pc |-> "idle", key |-> <<>>, raw |-> <<>>,
         attempts |-> 0, failed |-> FALSE, raised |-> FALSE, prior |-> None]

\* generate_docstring / generate_module_docstring after _cached_gen returned
Finish(key, raw) ==
    IF key[4] THEN clean_docstring(raw, NoFacts)
    ELSE clean_docstring(raw, analyze_code_metadata(key[3]))

\* what generate_docstring / generate_module_docstring returns to a caller
\* that is done
Result(t) == Finish(callers[t].key, callers[t].raw)

\* the history of completed requests: key's entry is absent from c
Forget(ret, c) == [k \in Keys |-> IF Lookup(c, k) = 0 THEN None ELSE ret[k]]

GenStart ==
    /\ cache = <<>>
    /\ groq_client = FALSE
    /\ callers = [t \in Callers |-> Idle]
    /\ returned = [k \in Keys |-> None]
    /\ nreq = 0

GenInit ==
    /\ GenStart
    /\ api_key \in BOOLEAN
    /\ CleanOff
    /\ ValOff
    /\ ParseOff
    /\ MetricsOff
    /\ AggOff

\* A caller enters generate_docstring (is_module = FALSE) or
\* generate_module_docstring (TRUE): _cached_gen looks the key up; a hit
\* returns the stored text and the caller finishes; a miss calls the provider.
Call(t, source_code, style, is_module) ==
    LET key == CacheKey(source_code, style, is_module)
        i == Lookup(cache, key)
    IN  /\ callers[t].pc = "idle"
        /\ nreq < MaxRequests
        /\ nreq' = nreq + 1
        /\ UNCHANGED <<groq_client, api_key, notgen>>
        /\ IF i # 0
           THEN /\ cache' = Touch(cache, i)
                /\ callers' = [callers EXCEPT ![t] =
                       [Idle EXCEPT !.pc = "done", !.key = key,
                                    !.raw = cache[i].value,
                                    !.prior = returned[key]]]
                /\ returned' = [returned EXCEPT ![key] = cache[i].value]
           ELSE /\ callers' = [callers EXCEPT ![t] =
                       [Idle EXCEPT !.pc = "calling", !.key = key,
                                    !.prior = returned[key]]]
                /\ UNCHANGED <<cache, returned>>

\* The provider call of a caller returns (or fails): _call_groq gives the
\* text, lru_cache stores it, the caller cleans it and finishes.
Return(t, env) ==
    LET key == callers[t].key
        r == _call_groq(key[2], groq_client, env)
        c == Store(cache, key, r.text)
    IN  /\ callers[t].pc = "calling"
        /\ env.key = api_key
        /\ groq_client' = ClientAfter(groq_client, env)
        /\ cache' = c
        /\ callers' = [callers EXCEPT ![t] =
               [@ EXCEPT !.pc = "done", !.raw = r.text,
                         !.attempts = @ + 1, !.failed = r.failed,
                         !.raised = r.raised]]
        /\ returned' = [Forget(returned, c) EXCEPT ![key] = r.text]
        /\ UNCHANGED <<api_key, nreq, notgen>>

\* the caller leaves with its result
Leave(t) ==
    /\ callers[t].pc = "done"
    /\ callers' = [callers EXCEPT ![t] = Idle]
    /\ UNCHANGED <<cache, groq_client, api_key, returned, nreq, notgen>>

Envs == [key : BOOLEAN, construct : BOOLEAN,
         reply : {"plain", "full", "error"}]

GenNext ==
    \/ \E t \in Callers, r \in Requests : Call(t, r[1], r[2], r[3])
    \/ \E t \in Callers, env \in Envs : Return(t, env)
    \/ \E t \in Callers : Leave(t)

SpecGen == GenInit /\ [][GenNext]_vars

\* --------------------------------------------------- the cleaning pipeline

\* the largest number of sections after the summary of a raw text
MaxSections == 2

SrcReturn == [name |-> "def foo(a): return a", parses |-> TRUE,
              nodes |-> <<FunctionDefNode(<<"a">>), ReturnNode("expr")>>]
SrcYield == [name |-> "def foo(): yield 1", parses |-> TRUE,
             nodes |-> <<FunctionDefNode(<<>>), YieldNode>>]

\* the snippets the structural facts are scanned from
Sources == {SrcVoid, SrcReturn, SrcYield, SrcRaise, SrcBroken}

\* summary lines a provider writes
Summaries ==
    {<<"Summary", ".">>,
     <<"this", SP, "function", SP, "calculates", SP, "the", SP, "sum">>,
     <<"Calculates", SP, "the", SP, "sum", ".">>,
     <<"calculate", SP, "the", SP, "sum">>}

\* sections in the three dialects
GoogleSection(head, body) == head \o <<":", NL>> \o Indent4 \o body
NumpySection(head, body) == head \o <<NL, DASHES, NL>> \o body
FieldSection(field, body) == <<":">> \o field \o <<":", SP>> \o body

Sections ==
    {GoogleSection(<<"Returns">>, <<"int", ":", SP, "value", ".">>),
     GoogleSection(<<"Yields">>, <<"int", ":", SP, "value", ".">>),
     GoogleSection(<<"Raises">>, <<"ValueError", ":", SP, "value", ".">>),
     GoogleSection(<<"Examples">>, <<"x">>),
     GoogleSection(<<"Args">>, <<"a", ":", SP, "value", ".">>),
     NumpySection(<<"Returns">>, <<"int">>),
     NumpySection(<<"Notes">>, <<"x">>),
     FieldSection(<<"returns">>, <<"value", ".">>),
     FieldSection(<<"return">>, <<"value", ".">>),
     FieldSection(<<"raises", SP, "ValueError">>, <<"value", ".">>)}

\* a blank line, or only a line break, before a section
Separators == {<<NL, NL>>, <<NL>>}

\* the texts of a summary and at most n sections
RECURSIVE WithSections(_)
WithSections(n) ==
    IF n = 0 THEN Summaries
    ELSE LET shorter == WithSections(n - 1)
         IN  shorter \cup {d \o sep \o sec :
                              d \in shorter, sep \in Separators, sec \in Sections}

\* what a provider puts around the text: chat, a code fence, quotes, a
\* wrapper definition
Wrappings(d) ==
    {<<"Here", SP, "is", SP, "the", SP, "summary", ":", NL>> \o d,
     <<FENCE, "python", NL>> \o d \o <<NL, FENCE>>,
     <<Q3D>> \o d \o <<Q3D>>,
     <<"def", SP, "f", "(", ")", ":", NL, SP, SP, Q3D>> \o d \o <<Q3D>>}

RawTexts ==
    WithSections(MaxSections)
    \cup UNION {Wrappings(d) : d \in WithSections(MaxSections - 1)}

CleanInit ==
    /\ raw_text \in RawTexts
    /\ snippet \in Sources \cup {NoSnippet}
    /\ facts = NoFacts
    /\ cleaned = <<>>
    /\ recleaned = <<>>
    /\ checked = None
    /\ clean_pc = "raw"
    /\ GenStart
    /\ api_key = FALSE
    /\ ValOff
    /\ ParseOff
    /\ MetricsOff
    /\ AggOff

\* generate_docstring scans the snippet for the structural facts
Analyze ==
    /\ clean_pc = "raw"
    /\ snippet # NoSnippet
    /\ facts' = analyze_code_metadata(snippet)
    /\ clean_pc' = "scanned"
    /\ UNCHANGED <<raw_text, snippet, cleaned, recleaned, checked, notclean>>

\* clean_docstring(docstring, metadata), without metadata when no snippet
\* is given (generate_module_docstring)
Clean ==
    /\ \/ clean_pc = "scanned"
       \/ clean_pc = "raw" /\ snippet = NoSnippet
    /\ cleaned' = clean_docstring(raw_text, facts)
    /\ clean_pc' = "cleaned"
    /\ UNCHANGED <<raw_text, snippet, facts, recleaned, checked, notclean>>

\* clean_docstring applied to its own output with the same facts
CleanAgain ==
    /\ clean_pc = "cleaned"
    /\ recleaned' = clean_docstring(cleaned, facts)
    /\ clean_pc' = "recleaned"
    /\ UNCHANGED <<raw_text, snippet, facts, cleaned, checked, notclean>>

\* the docstring styles
Styles == {"google", "numpy", "rest"}

\* the record the extractor makes for the function of a snippet, as far as
\* the validator reads it: analyze_function_body finds a returned value,
\* a yield and the raised names the way analyze_code_metadata does
FunctionMeta(source_code) ==
    LET scanned == analyze_code_metadata(source_code)
    IN  [args |-> scanned.params, returns_value |-> scanned.has_return,
         is_generator |-> scanned.has_yield,
         raises |-> scanned.raised_exceptions]

\* AIOutputValidator.validate_docstring applied to the output of the
\* pipeline, with the record of the function the text was generated for
CheckCleaned ==
    /\ clean_pc = "cleaned"
    /\ snippet # NoSnippet
    /\ snippet.parses
    /\ \E style \in Styles :
           checked' = validate_docstring(cleaned, FunctionMeta(snippet), style)
    /\ clean_pc' = "checked"
    /\ UNCHANGED <<raw_text, snippet, facts, cleaned, recleaned, notclean>>

CleanNext == Analyze \/ Clean \/ CleanAgain \/ CheckCleaned

SpecClean == CleanInit /\ [][CleanNext]_vars

\* ------------------------------------------------------------ the validator

\* the largest number of parameters a candidate text documents
MaxDocParams == 6

ParamNames == <<"a", "b", "c", "d", "e", "f", "g", "h">>

\* one parameter's entry in a dialect
Entry(dialect, name) ==
    CASE dialect = "google" ->
             <<NL>> \o Indent4 \o <<name, ":", SP, "value", ".">>
      [] dialect = "numpy" -> <<NL, name, SP, ":", SP, "int">>
      [] dialect = "rest" ->
             <<NL, ":", "param", SP, name, ":", SP, "value", ".">>

\* the entries of the first n names
RECURSIVE Entries(_, _)
Entries(n, dialect) ==
    IF n = 0 THEN <<>>
    ELSE Entries(n - 1, dialect) \o Entry(dialect, ParamNames[n])

\* parameter documentation in the three dialects
ParamDocs ==
    {<<>>}
    \cup {<<NL, NL, "Args", ":">> \o Entries(n, "google") :
             n \in {1, 3, MaxDocParams}}
    \cup {<<NL, NL, "Parameters", NL, DASHES>> \o Entries(2, "numpy"),
          <<NL>> \o Entries(3, "rest")}

ReturnDocs ==
    {<<>>,
     <<NL, NL>> \o GoogleSection(<<"Returns">>, <<"int", ":", SP, "value", ".">>),
     <<NL, NL>> \o GoogleSection(<<"Yields">>, <<"int", ":", SP, "value", ".">>),
     <<NL, ":", "returns", ":", SP, "value", ".">>}

RaiseDocs ==
    {<<>>,
     <<NL, NL>> \o GoogleSection(<<"Raises">>,
                                 <<"ValueError", ":", SP, "value", ".", NL>>
                                 \o Indent4
                                 \o <<"KeyError", ":", SP, "value", ".">>),
     <<NL, ":", "raises", SP, "IOError", ":", SP, "value", ".">>}

\* the candidate texts: the empty one, a blank one, an indented summary,
\* two that start with the header of the parameter section, and a summary
\* with parameter, return and exception documentation
Candidates ==
    {<<>>, <<SP>>, <<SP, "summary", ".">>,
     <<"args", ":">> \o Entries(1, "google"),
     <<"Parameters", NL, DASHES>> \o Entries(2, "numpy")}
    \cup {sm \o pd \o rt \o rs :
             sm \in {<<"Summary", ".">>,
                     <<"this", SP, "function", SP, "calculates", SP, "the",
                       SP, "sum">>,
                     <<"This", SP, "this", SP, "function", SP, "calculates",
                       SP, "the", SP, "sum">>},
             pd \in ParamDocs, rt \in ReturnDocs, rs \in RaiseDocs}

\* function records as the parser makes them
Functions ==
    [args : {<<>>, <<"a", "b">>, <<"self", "a">>, <<"a", "*args", "**kwargs">>},
     returns_value : BOOLEAN, is_generator : BOOLEAN,
     raises : {{}, {"ValueError"}}]

ValInit ==
    /\ candidate \in Candidates
    /\ function \in Functions
    /\ declared_style \in Styles
    /\ validation = None
    /\ recorrected = None
    /\ revalidation = None
    /\ val_pc = "candidate"
    /\ GenStart
    /\ api_key = FALSE
    /\ CleanOff
    /\ ParseOff
    /\ MetricsOff
    /\ AggOff

\* AIOutputValidator.validate_docstring(candidate, function, declared_style)
Validate ==
    /\ val_pc = "candidate"
    /\ validation' = validate_docstring(candidate, function, declared_style)
    /\ val_pc' = "validated"
    /\ UNCHANGED <<candidate, function, declared_style, recorrected,
                   revalidation, notval>>

\* AIOutputValidator.auto_correct applied to the corrected text of the
\* result, with the issues of the result
CorrectAgain ==
    /\ val_pc = "validated"
    /\ validation.corrected_docstring # None
    /\ recorrected' = auto_correct(validation.corrected_docstring,
                                   validation.issues, function,
                                   declared_style)
    /\ val_pc' = "corrected"
    /\ UNCHANGED <<candidate, function, declared_style, validation,
                   revalidation, notval>>

\* AIOutputValidator.validate_docstring applied to the corrected text of
\* the result, with the same metadata and style
Revalidate ==
    /\ val_pc = "validated"
    /\ validation.corrected_docstring # None
    /\ revalidation' = validate_docstring(validation.corrected_docstring,
                                          function, declared_style)
    /\ val_pc' = "revalidated"
    /\ UNCHANGED <<candidate, function, declared_style, validation,
                   recorrected, notval>>

ValNext == Validate \/ CorrectAgain \/ Revalidate

SpecVal == ValInit /\ [][ValNext]_vars

\* --------------------------------------------------------------- the parser

\* the largest number of lines of a file
MaxLines == 3

LineKinds == {"blank", "comment", "code"}

\* a statement or an expression of a type, with its children
Stmt(type, body) == TreeNode(type, "", "ok", body)

\* modules of one function f: if / elif, a comprehension, try / except,
\* loops, with, a boolean operation and a conditional expression, async
\* variants, and a nested function with a branch
BranchTrees ==
    {<<TreeNode("FunctionDef", "f", "ok", body)>> : body \in
        {<<Stmt("If", <<Stmt("Return", <<>>), Stmt("If", <<>>)>>)>>,
         <<Stmt("Return",
               <<Stmt("ListComp", <<Stmt("comprehension", <<>>)>>)>>)>>,
         <<Stmt("Try", <<Stmt("Pass", <<>>),
                         Stmt("ExceptHandler", <<>>)>>)>>,
         <<Stmt("While", <<>>), Stmt("For", <<Stmt("With", <<>>)>>)>>,
         <<Stmt("Return", <<Stmt("BoolOp", <<>>)>>),
           Stmt("Assign", <<Stmt("IfExp", <<>>)>>)>>,
         <<Stmt("AsyncFor", <<>>), Stmt("AsyncWith", <<>>)>>,
         <<TreeNode("FunctionDef", "inner", "ok", <<Stmt("If", <<>>)>>)>>}}

\* modules with definitions in compound statements and in nested scopes
ScopeTrees ==
    {<<Stmt("Try", <<Stmt("ExceptHandler",
           <<TreeNode("FunctionDef", "g", "ok", <<>>)>>)>>)>>,
     <<TreeNode("FunctionDef", "outer", "ok",
           <<TreeNode("ClassDef", "A", "ok",
                 <<TreeNode("FunctionDef", "m", "ok",
                       <<TreeNode("FunctionDef", "inner", "ok",
                             <<>>)>>)>>)>>)>>,
     <<TreeNode("ClassDef", "A", "ok",
           <<TreeNode("ClassDef", "B", "ok",
                 <<TreeNode("FunctionDef", "m", "ok", <<>>)>>),
             TreeNode("FunctionDef", "n", "ok",
                 <<Stmt("If",
                       <<TreeNode("FunctionDef", "deep", "ok",
                             <<>>)>>)>>)>>)>>,
     <<TreeNode("FunctionDef", "f", "ok",
           <<Stmt("If", <<TreeNode("FunctionDef", "g", "ok", <<>>)>>),
             TreeNode("FunctionDef", "h", "ok", <<>>)>>)>>}

\* the bodies of the modules the files parse to
Trees ==
    {<<TreeNode("Other", "x", "ok", <<>>)>>,
     <<TreeNode("Import", "os", "ok", <<>>),
       TreeNode("FunctionDef", "f", "ok", <<>>)>>,
     <<TreeNode("ClassDef", "A", "ok",
           <<TreeNode("FunctionDef", "m", "ok",
                 <<TreeNode("FunctionDef", "inner", "ok", <<>>)>>)>>)>>,
     <<TreeNode("Other", "if", "ok",
           <<TreeNode("FunctionDef", "f", "ok", <<>>)>>)>>,
     <<TreeNode("Import", "os", "ok", <<>>),
       TreeNode("FunctionDef", "f", "RecursionError", <<>>)>>,
     <<TreeNode("FunctionDef", "f", "ok", <<>>),
       TreeNode("ClassDef", "A", "RecursionError", <<>>)>>}
    \cup BranchTrees \cup ScopeTrees

\* the texts of at most MaxLines lines
Texts == UNION {[1..n -> LineKinds] : n \in 1..MaxLines}

\* the files: a path open() refuses, or a readable file with its text; only
\* a text with a line of code has statements or a syntax error
Files ==
    {[NoFile EXCEPT !.open = o] :
        o \in {"FileNotFoundError", "PermissionError", "IsADirectoryError",
               "OSError"}}
    \cup {[open |-> "ok", utf8 |-> u, lines |-> l, parse |-> "ok",
           tree |-> <<>>] :
             u \in BOOLEAN,
             l \in {t \in Texts : \A k \in 1..Len(t) : t[k] # "code"}}
    \cup {[open |-> "ok", utf8 |-> u, lines |-> l, parse |-> "ok",
           tree |-> t] :
             u \in BOOLEAN, t \in Trees,
             l \in {t \in Texts : \E k \in 1..Len(t) : t[k] = "code"}}
    \cup {[open |-> "ok", utf8 |-> u, lines |-> l, parse |-> e,
           tree |-> <<>>] :
             u \in BOOLEAN, e \in {"SyntaxError", "RecursionError"},
             l \in {t \in Texts : \E k \in 1..Len(t) : t[k] = "code"}}

ParseInit ==
    /\ file_in \in Files
    /\ outcome = None
    /\ escaped = "none"
    /\ parse_pc = "ready"
    /\ GenStart
    /\ api_key = FALSE
    /\ CleanOff
    /\ ValOff
    /\ MetricsOff
    /\ AggOff

\* a call of parse_python_file_enhanced returns, or an exception escapes it
Parse ==
    LET r == parse_python_file_enhanced(file_in)
    IN  /\ parse_pc = "ready"
        /\ escaped' = r.raised
        /\ outcome' = IF r.raised = "none" THEN r.result ELSE None
        /\ parse_pc' = IF r.raised = "none" THEN "returned" ELSE "raised"
        /\ UNCHANGED <<file_in, notparse>>

ParseNext == Parse

SpecParse == ParseInit /\ [][ParseNext]_vars

\* --------------------------------------------------- the function metrics

\* the largest number of parameters of a function record
MaxParams == 23

\* parameter names of the records, and names only a docstring has
MetricNames ==
    ParamNames \o <<"i", "x", "key", "value", "type", "int", "sum",
                    "description", "summary", "python", "module", "method",
                    "function", "by", "is", "have", "here", "sure">>
StaleNames == <<"thing", "ai">>

\* the Google entries of the first k names of a sequence
RECURSIVE GoogleEntries(_, _)
GoogleEntries(k, names) ==
    IF k = 0 THEN <<>>
    ELSE GoogleEntries(k - 1, names) \o Entry("google", names[k])

\* the docstrings of the records: none, a summary alone, and a summary with
\* an Args section of k parameters of the record and e other names, or
\* with NumPy or reST entries, with typed reST entries, or with an Args
\* section for a, args and kwargs
MetricDocs ==
    {<<>>}
    \cup {<<"Summary", ".">> \o
          (IF k + e = 0 THEN <<>>
           ELSE <<NL, NL, "Args", ":">> \o GoogleEntries(k, MetricNames)
                    \o GoogleEntries(e, StaleNames)) :
             k \in {0, 1, 2, 13}, e \in 0..2}
    \cup {<<"Summary", ".", NL, NL, "Parameters", NL, DASHES>>
              \o Entries(2, "numpy"),
          <<"Summary", ".", NL>> \o Entries(3, "rest"),
          <<"Summary", ".", NL, ":", "param", SP, "int", SP, "a", ":", SP,
            "value", ".", NL, ":", "param", SP, "int", SP, "b", ":", SP,
            "value", ".">>,
          <<"Summary", ".", NL, NL, "Args", ":">> \o Entry("google", "a")
              \o Entry("google", "args") \o Entry("google", "kwargs")}

FuncRecords ==
    [args : {SubSeq(MetricNames, 1, n) : n \in {0, 2, 3, 5, 10, MaxParams}}
                \cup {<<"a", "*args", "**kwargs">>},
     docstring : MetricDocs,
     style : {"google"},
     complexity : {1, 5, 6, 10, 11, 21},
     loc : {10, 50, 100, 101},
     nesting_level : {0, 3, 5, 6}]

\* radon.complexity: importable ("present"), not importable (ImportError,
\* "absent"), or failing with another exception ("error")
RadonStates == {"present", "absent", "error"}

MetricsInit ==
    /\ func_record \in FuncRecords
    /\ radon \in RadonStates
    /\ metrics = None
    /\ met_pc = "ready"
    /\ GenStart
    /\ api_key = FALSE
    /\ CleanOff
    /\ ValOff
    /\ ParseOff
    /\ AggOff

\* MetricsEngine.compute_function_metrics(func_data): the try block around
\* the grading catches ImportError only, any other exception of the import
\* or of cc_rank leaves the call
Compute ==
    /\ met_pc = "ready"
    /\ IF radon = "error"
       THEN /\ metrics' = None
            /\ met_pc' = "raised"
       ELSE /\ metrics' = compute_function_metrics(func_record, radon = "present")
            /\ met_pc' = "computed"
    /\ UNCHANGED <<func_record, radon, notmetrics>>

MetricsNext == Compute

SpecMetrics == MetricsInit /\ [][MetricsNext]_vars

\* ----------------------------------------------------------- aggregation

\* the largest number of function records and of class records of a project
MaxFuncs == 3
MaxClasses == 2

\* function records as aggregate_metrics reads them: complexity, loc,
\* whether the docstring is non-empty, whether the record has a
\* doc_coverage and that score in tenths, is_generator, is_async, raises
AggRecord(complexity, loc, docstring, scored, score, gen, async, raises) ==
    [complexity |-> complexity, loc |-> loc, docstring |-> docstring,
     scored |-> scored, doc_coverage |-> score,
     is_generator |-> gen, is_async |-> async, raises |-> raises]

AggFunctions ==
    {AggRecord(1, 10, FALSE, FALSE, 0, FALSE, FALSE, <<>>),
     AggRecord(6, 25, TRUE, FALSE, 0, TRUE, FALSE, <<"ValueError">>),
     AggRecord(11, 101, TRUE, TRUE, 236, FALSE, TRUE,
               <<"ValueError", "KeyError">>),
     AggRecord(10, 50, TRUE, TRUE, 1000, FALSE, FALSE, <<>>),
     AggRecord(21, 10, FALSE, TRUE, 0, TRUE, TRUE, <<>>),
     AggRecord(2, 20, TRUE, TRUE, 500, FALSE, FALSE, <<"KeyError">>)}

AggClasses == [docstring : BOOLEAN]

\* the sequences over a set of at most n elements
SeqsUpTo(S, n) == UNION {[1..k -> S] : k \in 0..n}

AggInit ==
    /\ project_functions \in SeqsUpTo(AggFunctions, MaxFuncs)
    /\ project_classes \in SeqsUpTo(AggClasses, MaxClasses)
    /\ aggregate = None
    /\ agg_pc = "ready"
    /\ GenStart
    /\ api_key = FALSE
    /\ CleanOff
    /\ ValOff
    /\ ParseOff
    /\ MetricsOff

\* MetricsEngine.aggregate_metrics(functions, classes)
Aggregate ==
    /\ agg_pc = "ready"
    /\ aggregate' = aggregate_metrics(project_functions, project_classes)
    /\ agg_pc' = "aggregated"
    /\ UNCHANGED <<project_functions, project_classes, notagg>>

AggNext == Aggregate

SpecAgg == AggInit /\ [][AggNext]_vars

\* the text _call_groq returns for a failed provider call
IsFailureText(text) ==
    /\ HasAt(text, 1, <<"Error", ":", SP>>)
    /\ Contains(text, <<"(", "Fallback", ")">>)

Calling(t) == callers[t].pc = "calling"
Done(t) == callers[t].pc = "done"

\* C1: single-flight: at most one call to the provider is in flight for a
\* key at any time; concurrent callers of the same key wait for it instead
\* of calling the provider themselves.
C1_SingleFlight ==
    \A t1, t2 \in Callers :
        (t1 # t2 /\ Calling(t1) /\ Calling(t2))
            => callers[t1].key # callers[t2].key

\* C2: a failed provider call stores nothing: no cache entry holds a
\* failure/fallback text.
C2_NoFailureCached ==
    \A i \in 1..Len(cache) : ~IsFailureText(cache[i].value)

\* C7: a generation failure is returned as a value, never raised: a caller
\* whose provider call failed gets, after that single attempt, a text with
\* the failure marker and the fallback template content.
C7_FailureIsValue ==
    \A t \in Callers :
        (Done(t) /\ callers[t].failed)
            => LET result == Result(t)
               IN  /\ ~callers[t].raised
                   /\ callers[t].attempts = 1
                   /\ Contains(result, <<"Error", ":">>)
                   /\ Contains(result, <<"(", "Fallback", ")">>)
                   /\ Contains(result, <<"Summary", ".">>)

C7_Witness ==
    \E t \in Callers : Done(t) /\ callers[t].failed /\ callers[t].attempts = 1

\* C8: memoization by key: once a request for a key has completed, every
\* later request with that key (its entry not evicted in between) returns
\* the same raw text, without a provider call.
C8_Memoized ==
    \A t \in Callers :
        (Done(t) /\ callers[t].prior # None)
            => /\ callers[t].raw = callers[t].prior
               /\ callers[t].attempts = 0

\* a cleaning run has produced its output
Cleaned == clean_pc \in {"cleaned", "recleaned"}

\* position i of s starts a line, leading spaces aside
LineStart(s, i) ==
    \E j \in 1..i : /\ j = 1 \/ s[j - 1] = NL
                    /\ \A k \in j..(i - 1) : s[k] = SP

\* s has a line that starts with one of the markers
HasSection(s, markers) ==
    \E i \in 1..Len(s), m \in markers : LineStart(s, i) /\ HasAt(s, i, m)

\* section markers in the Google, NumPy and reST dialects
ReturnsMarkers ==
    {<<"Returns", ":">>, <<"Returns", NL, DASHES>>,
     <<":", "returns", ":">>, <<":", "return", ":">>}
YieldsMarkers ==
    {<<"Yields", ":">>, <<"Yields", NL, DASHES>>, <<":", "yields", ":">>}
RaisesMarkers ==
    {<<"Raises", ":">>, <<"Raises", NL, DASHES>>, <<":", "raises">>}

\* C3: fail-open scan: when the snippet cannot be parsed, the facts leave
\* return, yield and raise all possible, so cleaning with them removes no
\* Returns, Yields or Raises section: the output is the one of cleaning
\* without facts, and a Raises section of the raw text is still there.
C3_FailOpen ==
    (Cleaned /\ snippet # NoSnippet /\ ~snippet.parses)
        => /\ cleaned = clean_docstring(raw_text, NoFacts)
           /\ HasSection(raw_text, RaisesMarkers)
                  => HasSection(cleaned, RaisesMarkers)

\* C4: clean_docstring is idempotent: cleaning its own output with the same
\* facts changes nothing.
C4_Idempotent ==
    clean_pc = "recleaned" => recleaned = cleaned

\* C9: fact-based stripping: with facts supplied, the output has no Returns
\* section when the function returns no value, no Yields section when it
\* does not yield, no Raises section when it raises nothing; a section
\* whose fact is true, and every such section without facts, is kept.
C9_FactStripping ==
    Cleaned =>
        /\ snippet # NoSnippet =>
              /\ ~facts.has_return => ~HasSection(cleaned, ReturnsMarkers)
              /\ ~facts.has_yield => ~HasSection(cleaned, YieldsMarkers)
              /\ facts.raised_exceptions = {}
                     => ~HasSection(cleaned, RaisesMarkers)
        /\ (facts.has_return /\ HasSection(raw_text, ReturnsMarkers))
               => HasSection(cleaned, ReturnsMarkers)
        /\ (facts.has_yield /\ HasSection(raw_text, YieldsMarkers))
               => HasSection(cleaned, YieldsMarkers)
        /\ ((~facts.given \/ facts.raised_exceptions # {})
                /\ HasSection(raw_text, RaisesMarkers))
               => HasSection(cleaned, RaisesMarkers)

\* a validator run has returned
Validated == val_pc \in {"validated", "corrected"}

\* the issues of the result with a code
IssuesWith(code) ==
    {k \in 1..Len(validation.issues) : validation.issues[k].code = code}

\* the function's parameter names, receiver excluded
Declared ==
    {LStripStars(function.args[k]) : k \in 1..Len(function.args)}
        \ {"", "self", "cls"}

\* the names extracted from the candidate text
Documented == _extract_documented_params(candidate, declared_style)

\* C5: parameter check: one Warning MISSING_PARAM for each declared name
\* that is not documented, one Error EXTRA_PARAM with a removal suggestion
\* for each documented name that is not declared, and no other issue with
\* these codes.
C5_ParamCheck ==
    (Validated /\ candidate # <<>>) =>
        /\ \A n \in Declared \ Documented :
               Cardinality({k \in IssuesWith("MISSING_PARAM") :
                               validation.issues[k].subject = n}) = 1
        /\ \A n \in Documented \ Declared :
               Cardinality({k \in IssuesWith("EXTRA_PARAM") :
                               validation.issues[k].subject = n}) = 1
        /\ \A k \in IssuesWith("MISSING_PARAM") :
               /\ validation.issues[k].severity = "warning"
               /\ validation.issues[k].subject \in Declared \ Documented
        /\ \A k \in IssuesWith("EXTRA_PARAM") :
               /\ validation.issues[k].severity = "error"
               /\ validation.issues[k].subject \in Documented \ Declared
               /\ validation.issues[k].suggestion
                      = <<"Remove", validation.issues[k].subject>>

\* add(a, b) documented with a, b, c: one EXTRA_PARAM, for c, and no
\* MISSING_PARAM
C5_Witness ==
    /\ Validated
    /\ function.args = <<"a", "b">>
    /\ Documented = {"a", "b", "c"}
    /\ IssuesWith("MISSING_PARAM") = {}
    /\ \E k \in 1..Len(validation.issues) :
           /\ IssuesWith("EXTRA_PARAM") = {k}
           /\ validation.issues[k].subject = "c"

\* C10: confidence: for a non-empty candidate text it is
\* max(0, 1.0 - 0.2 x Errors - 0.05 x Warnings) rounded to 2 decimals (here
\* in hundredths), Info issues not counted; it lies in [0, 1]; it is 1.0
\* without Error and Warning, and 0.95 with a single Warning.
C10_Confidence ==
    (Validated /\ candidate # <<>>) =>
        LET errors == CountSeverity(validation.issues, "error")
            warnings == CountSeverity(validation.issues, "warning")
            expected == 100 - 20 * errors - 5 * warnings
        IN  /\ validation.confidence_score = IF expected > 0 THEN expected ELSE 0
            /\ validation.confidence_score >= 0
            /\ validation.confidence_score <= 100
            /\ (errors = 0 /\ warnings = 0) => validation.confidence_score = 100
            /\ (errors = 0 /\ warnings = 1) => validation.confidence_score = 95

\* a result whose penalties exceed 1.0, with Info issues present
C10_Witness ==
    /\ Validated
    /\ candidate # <<>>
    /\ 20 * CountSeverity(validation.issues, "error")
           + 5 * CountSeverity(validation.issues, "warning") > 100
    /\ CountSeverity(validation.issues, "info") > 0
    /\ validation.confidence_score = 0

\* C6: parse_python_file_enhanced never raises, and every call ends with
\* success and no errors, or with failure, a non-empty errors list and
\* empty functions, classes and imports.
C6_NeverRaises ==
    parse_pc # "ready" =>
        /\ escaped = "none"
        /\ parse_pc = "returned"
        /\ \/ outcome.success /\ outcome.errors = <<>>
           \/ /\ ~outcome.success
              /\ outcome.errors # <<>>
              /\ outcome.functions = <<>>
              /\ outcome.classes = <<>>
              /\ outcome.imports = <<>>

\* C11: every result of validate_docstring, the one for the empty text
\* included, is valid exactly when its issues hold no Error; Warning and
\* Info issues never make it invalid.
C11_ValidIffNoError ==
    Validated =>
        (validation.is_valid
            <=> \A k \in 1..Len(validation.issues) :
                    validation.issues[k].severity # "error")

\* a valid result that carries both Warning and Info issues
C11_Witness ==
    /\ Validated
    /\ validation.is_valid
    /\ CountSeverity(validation.issues, "warning") > 1
    /\ CountSeverity(validation.issues, "info") > 0

\* C12: the empty candidate text gives an invalid result with exactly one
\* issue, the Error EMPTY_DOCSTRING, no corrected text, and a confidence
\* that is zero, never positive.
C12_EmptyInput ==
    (Validated /\ candidate = <<>>) =>
        /\ ~validation.is_valid
        /\ Len(validation.issues) = 1
        /\ validation.issues[1].severity = "error"
        /\ validation.issues[1].code = "EMPTY_DOCSTRING"
        /\ validation.corrected_docstring = None
        /\ validation.confidence_score = 0

\* C13: auto_correct is idempotent: applied to its own output with the same
\* issues it changes nothing.
C13_AutoCorrectIdempotent ==
    val_pc = "corrected" => recorrected = validation.corrected_docstring

\* the number of issues of the result with a code
CountCode(code) == Cardinality(IssuesWith(code))

\* C14: return/yield check as a decision table: MISSING_RETURN exactly when
\* the function returns a value, is not a generator and the text has
\* neither a Returns nor a Yields section; UNNECESSARY_RETURN exactly when it
\* returns no value, is not a generator and the text has a Returns section;
\* MISSING_YIELDS exactly when it is a generator and the text has no Yields
\* section; each a Warning, at most once.
C14_ReturnYieldTable ==
    (Validated /\ candidate # <<>>) =>
        LET returns_doc == HasSection(candidate, ReturnsMarkers)
            yields_doc == HasSection(candidate, YieldsMarkers)
            Once(code, due) == CountCode(code) = IF due THEN 1 ELSE 0
        IN  /\ Once("MISSING_RETURN",
                    /\ function.returns_value
                    /\ ~function.is_generator
                    /\ ~returns_doc
                    /\ ~yields_doc)
            /\ Once("UNNECESSARY_RETURN",
                    /\ ~function.returns_value
                    /\ ~function.is_generator
                    /\ returns_doc)
            /\ Once("MISSING_YIELDS",
                    function.is_generator /\ ~yields_doc)
            /\ \A k \in 1..Len(validation.issues) :
                   validation.issues[k].code
                       \in {"MISSING_RETURN", "UNNECESSARY_RETURN",
                            "MISSING_YIELDS"}
                   => validation.issues[k].severity = "warning"

\* the exception names the candidate texts mention
ExceptionNames == {"ValueError", "KeyError", "IOError"}

\* the text documents exception n: an entry "n:" on a line after a Raises
\* header, or a field ":raises n:"
DocumentsException(s, n) ==
    \/ Contains(s, <<":", "raises", SP, n, ":">>)
    \/ \E i \in 1..Len(s) :
           /\ LineStart(s, i)
           /\ HasAt(s, i, <<"Raises", ":", NL>>)
           /\ \E j \in (i + 3)..Len(s) : LineStart(s, j) /\ HasAt(s, j, <<n, ":">>)

\* C15: exception check: each exception name documented in the candidate
\* text that the function does not raise and that is not on the allow-list
\* gives exactly one Warning EXTRA_EXCEPTION; a documented name that is
\* raised or on the allow-list gives none.
C15_ExceptionCheck ==
    (Validated /\ candidate # <<>>) =>
        /\ \A n \in ExceptionNames :
               Cardinality({k \in IssuesWith("EXTRA_EXCEPTION") :
                               validation.issues[k].subject = n})
                   = IF /\ DocumentsException(candidate, n)
                        /\ n \notin function.raises
                        /\ n \notin {"TypeError", "AttributeError", "KeyError",
                                     "IndexError", "RuntimeError", "Exception"}
                     THEN 1 ELSE 0
        /\ \A k \in IssuesWith("EXTRA_EXCEPTION") :
               /\ validation.issues[k].severity = "warning"
               /\ validation.issues[k].subject \in ExceptionNames

\* the MISSING_PARAM and EXTRA_PARAM issues of a list of issues, in order
ParamIssues(issues) ==
    LET IsParamIssue(i) == i.code \in {"MISSING_PARAM", "EXTRA_PARAM"}
    IN  SelectSeq(issues, IsParamIssue)

\* C16: cross-style robustness: for the same candidate text and function,
\* runs that differ only in the declared style extract the same documented
\* parameters, the union of the three strategies' results, and report the
\* same MISSING_PARAM and EXTRA_PARAM issues.
C16_CrossStyle ==
    (val_pc = "validated" /\ candidate # <<>>) =>
        /\ Documented = GoogleParams(Strip(candidate))
                            \cup NumpyParams(Strip(candidate))
                            \cup RestParams(Strip(candidate))
        /\ \A s \in Styles :
               /\ _extract_documented_params(candidate, s) = Documented
               /\ _validate_parameters(candidate, function, s)
                      = ParamIssues(validation.issues)

\* a text in one dialect validated under another declared style, with its
\* parameters found
C16_Witness ==
    /\ Validated
    /\ declared_style = "rest"
    /\ GoogleParams(Strip(candidate)) = {"a", "b", "c"}
    /\ RestParams(Strip(candidate)) = {}
    /\ function.args = <<"a", "b">>
    /\ Documented = {"a", "b", "c"}
    /\ Len(ParamIssues(validation.issues)) = 1

\* markers of the narrative sections, and of the Args section
NarrativeMarkers ==
    {<<h, ":">> : h \in {"Examples", "Example", "Notes"}}
    \cup {<<h, NL, DASHES>> : h \in {"Examples", "Example", "Notes"}}
    \cup {<<"See", SP, "Also", ":">>, <<"See", SP, "Also", NL, DASHES>>}
ArgsMarkers == {<<"Args", ":">>}

\* C17: narrative sections are removed unconditionally: with or without
\* facts the output has no Examples, Notes or See Also section, while the
\* summary line and the Args section of the raw text are kept.
C17_NarrativeRemoved ==
    Cleaned =>
        /\ ~HasSection(cleaned, NarrativeMarkers)
        /\ \E w \in {"Summary", "sum"} : Contains(FirstLine(cleaned), <<w>>)
        /\ HasSection(raw_text, ArgsMarkers) => HasSection(cleaned, ArgsMarkers)

\* C18: summary-line normalization: the first line of every non-empty
\* output has no leading "This <noun> " phrase, starts with an uppercase
\* letter, does not start with a third-person verb of the verb table, and
\* ends with terminal punctuation.
C18_SummaryNormalized ==
    (Cleaned /\ cleaned # <<>>) =>
        LET first == FirstLine(cleaned)
        IN  /\ first # <<>>
            /\ \A n \in {"function", "method", "class", "module"} :
                   ~HasAtFold(first, 1, <<"this", SP, n, SP>>)
            /\ first[1] \in UpperWords
            /\ \A p \in IMPERATIVE_FIXES : first[1] # p[1]
            /\ first[Len(first)] \in EndsSentence

\* a metrics call has returned
Computed == met_pc = "computed"

\* the parameters of the record, and the names its docstring references
CodeParams == {func_record.args[k] : k \in 1..Len(func_record.args)}
DocParams == _extract_docstring_params(func_record.docstring, func_record.style)

\* C19: documentation-correctness score (doc_coverage, reported to one
\* decimal, here in tenths): 0 if undocumented; 100 with no declared
\* parameter and none referenced; 60 with parameters and none referenced;
\* 50 with references and no declared parameter; otherwise the share of
\* the declared parameters that are documented, times 100, minus 10 per
\* documented name that is not declared, clamped; always within [0, 100].
C19_DocCorrectness ==
    Computed =>
        LET n == Cardinality(CodeParams)
            common == Cardinality(CodeParams \cap DocParams)
            stale == Cardinality(DocParams \ CodeParams)
            score == 100 * common - 10 * stale * n
            clamped == IF score < 0 THEN 0
                       ELSE IF score > 100 * n THEN 100 * n ELSE score
        IN  /\ metrics.doc_coverage >= 0
            /\ metrics.doc_coverage <= 1000
            /\ IF func_record.docstring = <<>> THEN metrics.doc_coverage = 0
               ELSE IF n = 0 /\ DocParams = {} THEN metrics.doc_coverage = 1000
               ELSE IF DocParams = {} THEN metrics.doc_coverage = 600
               ELSE IF n = 0 THEN metrics.doc_coverage = 500
               ELSE \* the tenth nearest to clamped / n
                    /\ 2 * (n * metrics.doc_coverage - 10 * clamped) <= n
                    /\ 2 * (10 * clamped - n * metrics.doc_coverage) <= n

\* three declared parameters, one of them documented, and one documented
\* name that is not declared: 33.33 - 10, reported as 23.3
C19_Witness ==
    /\ Computed
    /\ Cardinality(CodeParams) = 3
    /\ Cardinality(CodeParams \cap DocParams) = 1
    /\ Cardinality(DocParams \ CodeParams) = 1
    /\ metrics.doc_coverage = 233

\* the score of a rating: Good 100, Warning 60, Critical 20
ScoreOf(rating) ==
    CASE rating = "Good" -> 100 [] rating = "Warning" -> 60
      [] rating = "Critical" -> 20

\* C20: function health: health_score (reported to one decimal, here in
\* tenths) is 0.30 x doc_correctness + 0.35 x complexity score + 0.20 x size
\* score + 0.15 x the mean of the parameter-count and nesting scores, and
\* the reported rating agrees with the reported score: Healthy iff it is
\* at least 80, Needs Attention iff it is at least 50 and below 80,
\* Critical iff it is below 50.
C20_Health ==
    Computed =>
        LET n == Cardinality(CodeParams)
            score == 100 * Cardinality(CodeParams \cap DocParams)
                         - 10 * Cardinality(DocParams \ CodeParams) * n
            \* doc_correctness as the fraction doc / den
            den == IF n = 0 THEN 1 ELSE n
            doc == IF func_record.docstring = <<>> THEN 0
                   ELSE IF n = 0 /\ DocParams = {} THEN 100
                   ELSE IF DocParams = {} THEN 60 * den
                   ELSE IF n = 0 THEN 50
                   ELSE IF score < 0 THEN 0
                   ELSE IF score > 100 * n THEN 100 * n ELSE score
            \* 100 x den x the weighted sum
            health == 30 * doc
                      + den * (35 * ScoreOf(metrics.complexity_rating)
                               + 20 * ScoreOf(metrics.loc_rating)
                               + 15 * ((ScoreOf(metrics.param_rating)
                                        + ScoreOf(metrics.nesting_rating))
                                       \div 2))
        IN  /\ 2 * (10 * den * metrics.health_score - health) <= 10 * den
            /\ 2 * (health - 10 * den * metrics.health_score) <= 10 * den
            /\ metrics.health_rating = "Healthy"
                   <=> metrics.health_score >= 800
            /\ metrics.health_rating = "Needs Attention"
                   <=> (metrics.health_score >= 500
                        /\ metrics.health_score < 800)
            /\ metrics.health_rating = "Critical"
                   <=> metrics.health_score < 500

\* the call of compute_function_metrics is over
MetricsCalled == met_pc \in {"computed", "raised"}

\* the fields of the result
MetricFields ==
    {"complexity_score", "complexity_rating", "complexity_grade", "loc",
     "loc_rating", "param_count", "param_rating", "nesting_level",
     "nesting_rating", "has_docstring", "docstring_style", "doc_coverage",
     "health_score", "health_rating", "total_params"}

\* C21: the complexity-grading fallback is transparent: whether the
\* grading collaborator is present, absent or fails with an error,
\* compute_function_metrics returns (it never raises because of the
\* collaborator) a result with the same fields; when the collaborator is
\* absent or errors, complexity_rating is the threshold classification of
\* the complexity (above 10 Critical, from 6 Warning, else Good), and
\* param_count is the number of entries in args.
C21_GradingTransparent ==
    MetricsCalled =>
        /\ met_pc = "computed"
        /\ DOMAIN metrics = MetricFields
        /\ metrics.param_count = Len(func_record.args)
        /\ radon # "present" =>
               metrics.complexity_rating =
                   (IF func_record.complexity > 10 THEN "Critical"
                    ELSE IF func_record.complexity >= 6 THEN "Warning"
                    ELSE "Good")

\* the rating of a value for a warning and a critical threshold
RatingOf(value, warning, critical) ==
    IF value > critical THEN "Critical"
    ELSE IF value < warning THEN "Good"
    ELSE "Warning"

\* C22: classify_metric rates a value Critical iff it is above the critical
\* threshold, Good iff it is below the warning threshold and Warning iff it
\* lies between the two (both included), with the defaults complexity
\* (6, 10), size (50, 100), parameter count (5, 10) and nesting (3, 5): the
\* size, parameter-count and nesting ratings of every result, and the
\* complexity rating when it comes from the thresholds.
C22_Classify ==
    Computed =>
        /\ metrics.loc_rating = RatingOf(func_record.loc, 50, 100)
        /\ metrics.param_rating = RatingOf(Len(func_record.args), 5, 10)
        /\ metrics.nesting_rating
               = RatingOf(func_record.nesting_level, 3, 5)
        /\ radon = "absent" =>
               metrics.complexity_rating
                   = RatingOf(func_record.complexity, 6, 10)

\* a complexity of 10, the critical threshold itself, rated Warning by the
\* thresholds, next to a size of 100 and ten parameters
C22_Witness ==
    /\ Computed
    /\ radon = "absent"
    /\ func_record.complexity = 10
    /\ metrics.complexity_rating = "Warning"
    /\ func_record.loc = 100
    /\ metrics.loc_rating = "Warning"
    /\ Len(func_record.args) = 10
    /\ metrics.param_rating = "Warning"

Aggregated == agg_pc = "aggregated"

\* reported is the fraction num / den rounded to the nearest unit
Nearest(reported, num, den) ==
    /\ 2 * (reported * den - num) <= den
    /\ 2 * (num - reported * den) <= den

\* the item score of a function in tenths: its doc_coverage when it has
\* one, else 100 when documented and 0 when not
ItemScore(f) ==
    IF f.scored THEN f.doc_coverage ELSE IF f.docstring THEN 1000 ELSE 0

\* C23: aggregate_metrics over any lists of function and class records
\* reports the counts of generators, async functions and raised-exception
\* occurrences, a severity distribution whose buckets count every function
\* once by the classification of its complexity, the average and the
\* maximum of complexity and of size over the functions, coverage_pct as
\* the mean item score over functions and classes, and health_score as
\* 0.35 x coverage + 0.35 x complexity banding (100 for an average
\* complexity below 6, 60 below 10, else 20) + 0.30 x the percentage of
\* functions rated Good.
C23_Aggregate ==
    Aggregated =>
        LET fs == project_functions
            n == Len(fs)
            items == n + Len(project_classes)
            sumcx == SeqSum([k \in 1..n |-> fs[k].complexity])
            sumloc == SeqSum([k \in 1..n |-> fs[k].loc])
            covsum == SeqSum([k \in 1..n |-> ItemScore(fs[k])])
                      + 1000 * Cardinality({k \in 1..Len(project_classes) :
                                            project_classes[k].docstring})
            good == Cardinality({k \in 1..n : fs[k].complexity < 6})
            band == IF sumcx < 6 * n THEN 100
                    ELSE IF sumcx < 10 * n THEN 60 ELSE 20
        IN  /\ aggregate.total_functions = n
            /\ aggregate.total_classes = Len(project_classes)
            /\ aggregate.generator_count
                   = Cardinality({k \in 1..n : fs[k].is_generator})
            /\ aggregate.async_count
                   = Cardinality({k \in 1..n : fs[k].is_async})
            /\ aggregate.total_exceptions
                   = SeqSum([k \in 1..n |-> Len(fs[k].raises)])
            /\ "severity_distribution" \in DOMAIN aggregate
            /\ aggregate.severity_distribution["Good"] = good
            /\ aggregate.severity_distribution["Warning"]
                   = Cardinality({k \in 1..n : fs[k].complexity >= 6
                                               /\ fs[k].complexity <= 10})
            /\ aggregate.severity_distribution["Critical"]
                   = Cardinality({k \in 1..n : fs[k].complexity > 10})
            /\ aggregate.severity_distribution["Good"]
                   + aggregate.severity_distribution["Warning"]
                   + aggregate.severity_distribution["Critical"] = n
            /\ items > 0 =>
                   Nearest(aggregate.coverage_pct, 10 * covsum, items)
            /\ n > 0 =>
                   /\ Nearest(aggregate.avg_complexity, 100 * sumcx, n)
                   /\ Nearest(aggregate.avg_loc, 10 * sumloc, n)
                   /\ aggregate.max_complexity
                          = Max({fs[k].complexity : k \in 1..n})
                   /\ Nearest(aggregate.health_score,
                              35 * covsum * n + 350 * band * items * n
                                  + 30000 * good * items,
                              100 * items * n)
                   /\ "max_loc" \in DOMAIN aggregate
                   /\ aggregate.max_loc = Max({fs[k].loc : k \in 1..n})

\* C24: raw line metrics do not depend on the syntax tree: for every file
\* that is read and decoded, one with a syntax error included, the result
\* returned carries raw line metrics, with total_loc = sloc + blank_lines
\* + comment_lines, no count negative, and blank_lines and comment_lines
\* the numbers of blank and of comment-only lines of the text.
C24_RawMetrics ==
    (parse_pc = "returned" /\ ReadFrom(file_in, 1) = "content") =>
        /\ outcome.raw_metrics # <<>>
        /\ LET m == outcome.raw_metrics
           IN  /\ m.total_loc = m.sloc + m.blank_lines + m.comment_lines
               /\ m.total_loc >= 0 /\ m.sloc >= 0
               /\ m.blank_lines >= 0 /\ m.comment_lines >= 0
               /\ m.total_loc = Len(file_in.lines)
               /\ m.blank_lines = CountLines(file_in.lines, "blank")
               /\ m.comment_lines = CountLines(file_in.lines, "comment")

Parsed == parse_pc = "returned" /\ outcome.success

\* the constructs that add to the cyclomatic complexity: conditional
\* branches, loops (comprehension-style and async ones included), exception
\* handlers, with blocks, boolean combinators, conditional expressions
BranchConstructs ==
    {"If", "For", "AsyncFor", "While", "comprehension", "ExceptHandler",
     "With", "AsyncWith", "BoolOp", "IfExp"}

\* the number of such constructs below a node
RECURSIVE ConstructsIn(_, _)
ConstructsIn(body, k) ==
    IF k > Len(body) THEN 0
    ELSE (IF body[k].type \in BranchConstructs THEN 1 ELSE 0)
         + ConstructsIn(body[k].body, 1) + ConstructsIn(body, k + 1)

\* the function definitions of a body, at any depth
RECURSIVE DefsIn(_)
DefsIn(body) ==
    UNION {(IF body[k].type \in {"FunctionDef", "AsyncFunctionDef"}
            THEN {body[k]} ELSE {}) \cup DefsIn(body[k].body) :
               k \in 1..Len(body)}

\* C25: for every function record of the extractor, the complexity is 1
\* plus the number of conditional branches, loops (comprehension-style and
\* async ones included), exception handlers, with blocks, boolean
\* combinators and conditional expressions in the body of the function,
\* each adding exactly 1; so it is at least 1, and 1 for a body with none.
C25_Complexity ==
    Parsed =>
        \A i \in 1..Len(outcome.functions) :
            LET fr == outcome.functions[i]
            IN  /\ fr.complexity >= 1
                /\ \A node \in DefsIn(file_in.tree) :
                       node.name = fr.name =>
                           fr.complexity = 1 + ConstructsIn(node.body, 1)

\* the nearest class and the number of function definitions around the
\* nodes of a body: the triples <<name, owning class, depth>> of the
\* function definitions in it, at any depth and in any statement
RECURSIVE ScopedDefs(_, _, _)
ScopedDefs(body, class, depth) ==
    UNION {LET node == body[k]
           IN  IF node.type \in {"FunctionDef", "AsyncFunctionDef"}
               THEN {<<node.name, class, depth>>}
                        \cup ScopedDefs(node.body, class, depth + 1)
               ELSE IF node.type = "ClassDef"
               THEN ScopedDefs(node.body, node.name, depth)
               ELSE ScopedDefs(node.body, class, depth) :
               k \in 1..Len(body)}

\* C27: scope walk: after a successful parse every function definition of
\* the source, at module level, in a class body, nested in a function or
\* inside a compound statement, appears exactly once in functions, with
\* parent the name of its nearest enclosing class (none outside any class)
\* and nesting_level the number of function definitions that enclose it.
C27_ScopeWalk ==
    Parsed =>
        LET defs == ScopedDefs(file_in.tree, "", 0)
            fs == outcome.functions
        IN  /\ \A d \in defs :
                   Cardinality({i \in 1..Len(fs) : fs[i].name = d[1]}) = 1
            /\ \A i \in 1..Len(fs) :
                   <<fs[i].name, fs[i].parent, fs[i].nesting_level>> \in defs

Revalidated == val_pc = "revalidated"

\* the Error and Warning issues of a result, as <<severity, code, subject>>
Findings(result) ==
    {<<result.issues[k].severity, result.issues[k].code,
       result.issues[k].subject>> :
        k \in {j \in 1..Len(result.issues) :
                  result.issues[j].severity \in {"error", "warning"}}}

SummaryCodes == {"D400", "D403", "D404"}

\* C26: auto-correction leaves parameter, return and exception findings
\* untouched: validating the corrected text against the same metadata and
\* style gives exactly the Error and Warning issues of the original text,
\* and a result whose issues hold no D400, D403 or D404 has the original
\* text as its corrected text.
C26_CorrectionFrame ==
    /\ Revalidated => Findings(revalidation) = Findings(validation)
    /\ (val_pc = "validated" /\ validation.corrected_docstring # None
        /\ IssuesWith("D400") = {} /\ IssuesWith("D403") = {}
        /\ IssuesWith("D404") = {}) =>
           validation.corrected_docstring = candidate

\* C28: auto-correction fixes what it reports: for every non-empty
\* candidate text with a D400, D403 or D404 issue, validating the corrected
\* text reports none of D400, D403 and D404.
C28_CorrectionFixes ==
    (Revalidated /\ candidate # <<>>
     /\ \E k \in 1..Len(validation.issues) :
            validation.issues[k].code \in SummaryCodes) =>
        \A k \in 1..Len(revalidation.issues) :
            revalidation.issues[k].code \notin SummaryCodes

\* C29: metrics engine and validator agree on parameters: for every
\* function record (variadic parameters included) and every docstring
\* (typed reST entries included) the two components extract the same set
\* of documented names, and a documented function for which the validator
\* reports no MISSING_PARAM and no EXTRA_PARAM has a documentation
\* correctness of 100.
C29_SameParams ==
    Computed =>
        LET doc == func_record.docstring
            style == func_record.style
        IN  /\ _extract_docstring_params(doc, style)
                   = _extract_documented_params(doc, style)
            /\ (doc # <<>>
                /\ _validate_parameters(doc, [args |-> func_record.args],
                                        style) = <<>>) =>
                   metrics.doc_coverage = 1000

\* C30: pipeline and validator agree on return documentation: for a source
\* function that neither returns a value nor yields, and every raw text,
\* validating the output of the pipeline against the function's record
\* never reports UNNECESSARY_RETURN.
C30_NoUnnecessaryReturn ==
    (clean_pc = "checked" /\ ~facts.has_return /\ ~facts.has_yield) =>
        \A k \in 1..Len(checked.issues) :
            checked.issues[k].code # "UNNECESSARY_RETURN"

====
